---- MODULE Spec2Model ----
(***************************************************************************)
(* Echo.io game server (src/server.js): the authoritative simulation of    *)
(* players, bots and bullets, the 10 Hz tick and the socket handlers.      *)
(*                                                                         *)
(* Numbers.  JavaScript numbers are modelled in fixed point: positions in  *)
(* whole world units, times in milliseconds, angles in whole degrees       *)
(* (Math.PI is 180), and a value of Math.random() in thousandths           *)
(* (0..999 stands for [0,1)).  Sines and cosines are thousandths taken     *)
(* from a table of sin(0..90 degrees).                                     *)
(*                                                                         *)
(* Randomness.  Every handler that calls Math.random() takes a stream rs,  *)
(* a finite sequence of thousandths read cyclically from its first         *)
(* element, one element per call of Math.random() in the order of the      *)
(* calls in the code.                                                      *)
(***************************************************************************)
EXTENDS Integers, Sequences, FiniteSets, TLC

VARIABLES
    players,          \* Map players: sequence of player records in insertion order
    bots,             \* Map bots: sequence of bot records in insertion order
    bullets,          \* Map bullets: sequence of bullet records in insertion order
    bulletIdCounter,  \* let bulletIdCounter
    botIdCounter,     \* let botIdCounter
    now,              \* Date.now(), milliseconds
    nextTick,         \* time at which the setInterval callback is next due
    timers,           \* pending setTimeout callbacks, in creation order
    sessions,         \* per socket: "new", "active" or "disconnected"
    listening,        \* the http.listen callback has run
    out,              \* events emitted by the last handler, in order
    removedCount,     \* history: bulletRemoved events emitted so far, per bullet number
    hitCount,         \* history: playerHit events caused so far, per bullet number
    tested,           \* history: the hit tests of the last handler, one per bullet tested
    lastAccepted,     \* history: time of the last accepted ping, per socket number
    lastFired,        \* history: time of the last accepted shot, per socket number
    lastDied          \* history: time at which alive last became false, per socket number

vars == <<players, bots, bullets, bulletIdCounter, botIdCounter, now, nextTick,
          timers, sessions, listening, out, removedCount, hitCount, tested,
          lastAccepted, lastFired, lastDied>>

-----------------------------------------------------------------------------
(* gameConfig, src/server.js lines 20-43 *)

worldWidth == 2000
worldHeight == 2000
pingCooldown == 1000
maxPingRadius == 300
minBots == 5
maxBots == 10
botSpeed == 2
\* botPingChance 0.02, botDirectionChangeChance 0.02, botAggressiveness 0.8,
\* in thousandths like Math.random()
botPingChance == 20
botDirectionChangeChance == 20
botAggressiveness == 800
botDetectionRange == 400
botShootRange == 300
\* botAccuracy 0.15 radians, in thousandths of a radian
botAccuracy == 150
maxHealth == 100
bulletDamage == 10
bulletSpeed == 10
bulletLifetime == 2000
shootCooldown == 200
respawnTime == 3000
\* gameConfig as it is sent to a client
gameConfig ==
    [worldWidth |-> worldWidth, worldHeight |-> worldHeight, playerSpeed |-> 3,
     pingCooldown |-> pingCooldown, pingDuration |-> 2000,
     maxPingRadius |-> maxPingRadius,
     minBots |-> minBots, maxBots |-> maxBots, botSpeed |-> botSpeed,
     botPingChance |-> botPingChance,
     botDirectionChangeChance |-> botDirectionChangeChance,
     botDetectionRange |-> botDetectionRange, botShootRange |-> botShootRange,
     botAccuracy |-> botAccuracy, botAggressiveness |-> botAggressiveness,
     maxHealth |-> maxHealth, bulletDamage |-> bulletDamage,
     bulletSpeed |-> bulletSpeed, bulletLifetime |-> bulletLifetime,
     shootCooldown |-> shootCooldown, respawnTime |-> respawnTime]

\* the period of the setInterval callback
tickPeriod == 100
\* the hit radius of updateBullets
hitRadius == 15
\* the wall margin of updateBots
wallMargin == 50
\* the distance under which a cautious bot backs away
backAwayDistance == 150
\* the distance over which a bot with a threat still pings
pingBlindDistance == 200
\* the points added for a kill
killBonus == 100
\* Math.PI, in degrees
PI == 180

-----------------------------------------------------------------------------
(* Arithmetic of the fixed-point numbers *)

Abs(n) == IF n < 0 THEN 0 - n ELSE n

Min(a, b) == IF a < b THEN a ELSE b

Max(a, b) == IF a > b THEN a ELSE b

\* Division rounding toward zero (\div rounds down).
Quot(a, b) == IF a >= 0 THEN a \div b ELSE 0 - ((0 - a) \div b)

\* Math.floor of a non-negative quotient.
Floor(a, b) == a \div b

SinTable ==
    <<0, 17, 35, 52, 70, 87, 105, 122, 139, 156, 174, 191, 208, 225, 242, 259,
      276, 292, 309, 326, 342, 358, 375, 391, 407, 423, 438, 454, 469, 485,
      500, 515, 530, 545, 559, 574, 588, 602, 616, 629, 643, 656, 669, 682,
      695, 707, 719, 731, 743, 755, 766, 777, 788, 799, 809, 819, 829, 839,
      848, 857, 866, 875, 883, 891, 899, 906, 914, 921, 927, 934, 940, 946,
      951, 956, 961, 966, 970, 974, 978, 982, 985, 988, 990, 993, 995, 996,
      998, 999, 999, 1000, 1000>>

\* Math.sin of an angle in degrees, in thousandths.
Sin(a) ==
    LET d == a % (2 * PI)
    IN  IF d <= PI \div 2 THEN SinTable[d + 1]
        ELSE IF d <= PI THEN SinTable[PI - d + 1]
        ELSE IF d <= PI + PI \div 2 THEN 0 - SinTable[d - PI + 1]
        ELSE 0 - SinTable[2 * PI - d + 1]

\* Math.cos of an angle in degrees, in thousandths.
Cos(a) == Sin(a + PI \div 2)

\* Math.atan2(dy, dx) in degrees, in (-180, 180]: the angle of the first
\* quadrant is the first whole degree a with tan(a) >= |dy|/|dx|, and the
\* signs of dx and dy give the quadrant.
Atan2(dy, dx) ==
    IF dx = 0 /\ dy = 0 THEN 0
    ELSE LET Reached(a) == Sin(a) * Abs(dx) >= Cos(a) * Abs(dy)
             a1 == CHOOSE a \in 0 .. (PI \div 2) :
                       Reached(a) /\ (a = 0 \/ ~Reached(a - 1))
             a2 == IF dx < 0 THEN PI - a1 ELSE a1
         IN  IF dy < 0 THEN 0 - a2 ELSE a2

\* dx*dx + dy*dy, the square of Math.sqrt(dx*dx + dy*dy).
Dist2(dx, dy) == dx * dx + dy * dy

\* Math.sqrt rounded down, by bisection: lo*lo <= n < hi*hi throughout.
RECURSIVE SqrtIn(_, _, _)
SqrtIn(n, lo, hi) ==
    IF hi - lo <= 1 THEN lo
    ELSE LET mid == (lo + hi) \div 2
         IN  IF mid * mid <= n THEN SqrtIn(n, mid, hi) ELSE SqrtIn(n, lo, mid)

Sqrt(n) == SqrtIn(n, 0, worldWidth + worldHeight + 1)

\* An angle given in thousandths of a radian, in degrees.
MilliRadToDeg(m) == Quot(m * PI, 3142)


\* A product a*b/c rounded to the nearest integer (the fixed-point result of
\* a floating-point product).
Round(a, b) ==
    IF a >= 0 THEN (2 * a + b) \div (2 * b) ELSE 0 - ((2 * (0 - a) + b) \div (2 * b))

-----------------------------------------------------------------------------
(* Ids, events, the random stream *)

\* socket.id of the n-th connection, `bot_${n}` and `bullet_${n}`
SockId(n) == <<"sock", n>>

BotId(n) == <<"bot", n>>

BulletId(n) == <<"bullet", n>>

\* io.emit, socket.broadcast.emit and socket.emit
ToAll == <<"all", 0>>

ToOthers(s) == <<"others", s>>

ToSocket(s) == <<"socket", s>>

\* One emitted event: its name, its receivers, the id it is about and the
\* numbers of its payload.
Ev(type, to, id, data) == [type |-> type, to |-> to, id |-> id, data |-> data]

\* The k-th call of Math.random() of a handler run on stream rs (k from 0).
Rnd(rs, k) == rs[(k % Len(rs)) + 1]

botNames ==
    <<"Shadow", "Ghost", "Phantom", "Specter", "Wraith", "Echo", "Pulse",
      "Whisper", "Stealth", "Hunter">>

\* The state the handlers read and write, with the count ri of the calls of
\* Math.random() made so far by the running handler.
World ==
    [players |-> players, bots |-> bots, bullets |-> bullets,
     bulletIdCounter |-> bulletIdCounter, botIdCounter |-> botIdCounter,
     timers |-> timers, out |-> <<>>, removed |-> removedCount,
     hits |-> hitCount, tested |-> <<>>, accepted |-> lastAccepted,
     fired |-> lastFired, died |-> lastDied, ri |-> 0]

Emit(w, e) == [w EXCEPT !.out = Append(@, e)]

\* History: the entity goes from alive to dead at time t.
Mourn(w, entity, t) ==
    IF entity.alive /\ ~entity.isBot
    THEN [w EXCEPT !.died = (entity.id[2] :> t) @@ @]
    ELSE w

\* Index of the entity with this id in a store, 0 when absent (Map.get).
IndexOf(store, id) ==
    IF \E i \in 1 .. Len(store) : store[i].id = id
    THEN CHOOSE i \in 1 .. Len(store) : store[i].id = id
    ELSE 0

\* Map.delete: the store without its i-th entry.
RemoveAt(store, i) == SubSeq(store, 1, i - 1) \o SubSeq(store, i + 1, Len(store))

\* Math.floor((Date.now() - joinTime) / 1000) + kills * 100
ScoreOf(e, t) == Floor(t - e.joinTime, 1000) + e.kills * killBonus

-----------------------------------------------------------------------------
(* createBot, removeBot, manageBotPopulation: lines 56-99 and 249-268 *)

NewBot(n, rs, k, t) ==
    [id |-> BotId(n),
     name |-> botNames[Floor(Rnd(rs, k) * Len(botNames), 1000) + 1],
     x |-> Floor(Rnd(rs, k + 1) * worldWidth, 1000),
     y |-> Floor(Rnd(rs, k + 2) * worldHeight, 1000),
     lastPing |-> 0, alive |-> TRUE, joinTime |-> t, score |-> 0, kills |-> 0,
     deaths |-> 0, health |-> maxHealth, lastShoot |-> 0, isBot |-> TRUE,
     direction |-> Floor(Rnd(rs, k + 4) * 2 * PI, 1000),
     targetDirection |-> Floor(Rnd(rs, k + 5) * 2 * PI, 1000),
     speed |-> botSpeed]

\* bots.set(botId, bot); io.emit('playerJoined', bot)
AddBot(w, bot) ==
    [w EXCEPT !.bots = Append(@, bot),
              !.out = Append(@, Ev("playerJoined", ToAll, bot.id, <<bot.x, bot.y>>))]

\* A faulty variant of lines 56-88: botIdCounter is not incremented.
createBotUncounted(w, rs, t) ==
    AddBot([w EXCEPT !.ri = @ + 6], NewBot(w.botIdCounter, rs, w.ri, t))

\* Six calls of Math.random(): name, x, y, color, direction, targetDirection.
createBot(w, rs, t) ==
    AddBot([w EXCEPT !.botIdCounter = @ + 1, !.ri = @ + 6],
           NewBot(w.botIdCounter, rs, w.ri, t))

\* A faulty variant of lines 90-99: the bot is deleted and no playerLeft is
\* emitted.
removeBotUnannounced(w, botId) ==
    IF IndexOf(w.bots, botId) = 0 THEN w
    ELSE [w EXCEPT !.bots = RemoveAt(@, IndexOf(w.bots, botId))]

removeBot(w, botId) ==
    IF IndexOf(w.bots, botId) = 0 THEN w
    ELSE [w EXCEPT !.bots = RemoveAt(@, IndexOf(w.bots, botId)),
                   !.out = Append(@, Ev("playerLeft", ToAll, botId,
                                        <<w.bots[IndexOf(w.bots, botId)].score>>))]

RECURSIVE CreateBots(_, _, _, _)
CreateBots(w, rs, t, n) ==
    IF n <= 0 THEN w ELSE CreateBots(createBot(w, rs, t), rs, t, n - 1)

RECURSIVE RemoveBots(_, _, _, _)
RemoveBots(w, botIds, i, n) ==
    IF i > n THEN w ELSE RemoveBots(removeBot(w, botIds[i]), botIds, i + 1, n)

Ids(store) == [i \in 1 .. Len(store) |-> store[i].id]

\* A faulty variant of lines 252-258: one bot is created, whatever is missing.
AddOneBot(w, rs, t, totalPlayers) ==
    IF totalPlayers < minBots THEN CreateBots(w, rs, t, 1) ELSE w

\* Lines 252-258, totalPlayers being players.size + bots.size on entry.
AddMissingBots(w, rs, t, totalPlayers) ==
    IF totalPlayers < minBots THEN CreateBots(w, rs, t, minBots - totalPlayers) ELSE w

\* A faulty variant of lines 260-267: one bot is removed, whatever the excess.
RemoveOneBot(w, totalPlayers) ==
    IF Len(w.bots) > 0 /\ totalPlayers > maxBots
    THEN RemoveBots(w, Ids(w.bots), 1, 1)
    ELSE w

\* Lines 260-267, totalPlayers being players.size + bots.size on entry.
RemoveExcessBots(w, totalPlayers) ==
    IF Len(w.bots) > 0 /\ totalPlayers > maxBots
    THEN RemoveBots(w, Ids(w.bots), 1, Min(Len(w.bots), totalPlayers - maxBots))
    ELSE w

manageBotPopulation(w, rs, t) ==
    RemoveExcessBots(AddMissingBots(w, rs, t, Len(w.players) + Len(w.bots)),
                     Len(w.players) + Len(w.bots))

-----------------------------------------------------------------------------
(* updateBots: lines 101-247 *)

\* A faulty variant of lines 115-138: the other bots are looked at first.
EnemiesBotsFirst(w, bot) ==
    SelectSeq(w.bots, LAMBDA o : o.id # bot.id /\ o.alive)
        \o SelectSeq(w.players, LAMBDA p : p.alive)

\* The living entities a bot looks at, players first, then the other bots,
\* each in insertion order (lines 115-138).
Enemies(w, bot) ==
    SelectSeq(w.players, LAMBDA p : p.alive)
        \o SelectSeq(w.bots, LAMBDA o : o.id # bot.id /\ o.alive)

\* Index in es of nearestEnemy, 0 for null: the first entity, in order, whose
\* distance is below botDetectionRange and below that of all before it and
\* not above that of any after it.
NearestIndex(es, bot) ==
    LET D(j) == Dist2(es[j].x - bot.x, es[j].y - bot.y)
        Seen == {j \in 1 .. Len(es) : D(j) < botDetectionRange * botDetectionRange}
    IN  IF Seen = {} THEN 0
        ELSE CHOOSE j \in Seen :
                 \A k \in Seen : D(j) < D(k) \/ (D(j) = D(k) /\ j <= k)

\* nearestEnemy, nearestDistance (squared) and angleToEnemy of the bot, j
\* being the index of the nearest enemy in es.
ThreatAt(es, bot, j) ==
    IF j = 0 THEN [found |-> FALSE, id |-> <<"nobody", 0>>, d2 |-> 0, angle |-> 0]
    ELSE [found |-> TRUE, id |-> es[j].id,
          d2 |-> Dist2(es[j].x - bot.x, es[j].y - bot.y),
          angle |-> Atan2(es[j].y - bot.y, es[j].x - bot.x)]

ThreatAmong(es, bot) == ThreatAt(es, bot, NearestIndex(es, bot))

Threat(w, bot) == ThreatAmong(Enemies(w, bot), bot)

\* A bullet of createdAt t fired by the owner at the angle given in degrees.
NewBullet(n, owner, t, angle) ==
    [id |-> BulletId(n), ownerId |-> owner.id, ownerName |-> owner.name,
     x |-> owner.x, y |-> owner.y,
     vx |-> Round(Cos(angle) * bulletSpeed, 1000),
     vy |-> Round(Sin(angle) * bulletSpeed, 1000),
     damage |-> bulletDamage, createdAt |-> t]

\* bullets.set(bulletId, bullet); io.emit('bulletFired', bullet)
PutBullet(w, b) ==
    [w EXCEPT !.bullets = Append(@, b),
              !.removed = @ @@ (b.id[2] :> 0),
              !.hits = @ @@ (b.id[2] :> 0),
              !.out = Append(@, Ev("bulletFired", ToAll, b.id,
                                   <<b.x, b.y, b.vx, b.vy, b.ownerId, b.createdAt>>))]

AddBullet(w, owner, t, angle) ==
    PutBullet([w EXCEPT !.bulletIdCounter = @ + 1],
              NewBullet(w.bulletIdCounter, owner, t, angle))

\* Lines 145-160: targetDirection and speed of the i-th bot, which has a
\* threat.  Math.random() is called once, and once more for the jitter of a
\* cautious bot that is not too close.
BotSteer(w, i, threat, rs) ==
    LET aggressive == Rnd(rs, w.ri) < botAggressiveness
        close == threat.d2 < backAwayDistance * backAwayDistance
        jitter == MilliRadToDeg(Quot((Rnd(rs, w.ri + 1) - 500) * 500, 1000))
    IN  IF aggressive
        THEN [w EXCEPT !.bots[i].targetDirection = threat.angle,
                       !.bots[i].speed = (botSpeed * 3) \div 2,
                       !.ri = @ + 1]
        ELSE IF close
        THEN [w EXCEPT !.bots[i].targetDirection = threat.angle + PI,
                       !.bots[i].speed = botSpeed,
                       !.ri = @ + 1]
        ELSE [w EXCEPT !.bots[i].targetDirection = threat.angle + jitter,
                       !.bots[i].speed = botSpeed,
                       !.ri = @ + 2]

\* accuracy = botAccuracy * (1 + nearestDistance / botShootRange), in
\* thousandths of a radian
Accuracy(d2) == Quot(botAccuracy * (botShootRange + Sqrt(d2)), botShootRange)

\* A faulty variant of lines 162-188: the bot shoots at a threat at
\* botShootRange too.
BotShootAtRange(w, i, threat, rs, t) ==
    IF threat.d2 <= botShootRange * botShootRange
         /\ t - w.bots[i].lastShoot > shootCooldown
    THEN AddBullet([w EXCEPT !.bots[i].lastShoot = t, !.ri = @ + 1], w.bots[i], t,
                   threat.angle
                     + MilliRadToDeg(Quot((Rnd(rs, w.ri) - 500) * Accuracy(threat.d2),
                                          1000)))
    ELSE w

\* Lines 162-188: the shot of the i-th bot at its threat.
BotShoot(w, i, threat, rs, t) ==
    IF threat.d2 < botShootRange * botShootRange
         /\ t - w.bots[i].lastShoot > shootCooldown
    THEN AddBullet([w EXCEPT !.bots[i].lastShoot = t, !.ri = @ + 1], w.bots[i], t,
                   threat.angle
                     + MilliRadToDeg(Quot((Rnd(rs, w.ri) - 500) * Accuracy(threat.d2),
                                          1000)))
    ELSE w

\* Lines 189-195: the i-th bot has no threat.
BotWander(w, i, rs) ==
    IF Rnd(rs, w.ri) < botDirectionChangeChance
    THEN [w EXCEPT !.bots[i].speed = botSpeed,
                   !.bots[i].targetDirection = Floor(Rnd(rs, w.ri + 1) * 2 * PI, 1000),
                   !.ri = @ + 2]
    ELSE [w EXCEPT !.bots[i].speed = botSpeed, !.ri = @ + 1]

\* Lines 140-195
BotDecide(w, i, threat, rs, t) ==
    IF threat.found THEN BotShoot(BotSteer(w, i, threat, rs), i, threat, rs, t)
    ELSE BotWander(w, i, rs)

\* Lines 197-199: the heading moves a tenth of the way to the target heading.
Smoothed(bot) ==
    [bot EXCEPT !.direction = @ + Round(bot.targetDirection - bot.direction, 10)]

\* Lines 206-211 and 212-216: the bounce off a wall, at the projected
\* coordinate v, of a bot whose heading has become dir.
BounceAt(v, limit) == v < wallMargin \/ v > limit - wallMargin

\* A faulty variant of the clamp: no lower margin.
BoundedAbove(v, limit) == Min(limit - wallMargin, v)

Bounded(v, limit) == Max(wallMargin, Min(limit - wallMargin, v))

\* A faulty variant of lines 201-219: the target heading is left as it is.
SteppedOffTarget(bot) ==
    LET currentSpeed == IF bot.speed # 0 THEN bot.speed ELSE botSpeed
        newX == bot.x + Round(Cos(bot.direction) * currentSpeed, 1000)
        newY == bot.y + Round(Sin(bot.direction) * currentSpeed, 1000)
        bounceX == BounceAt(newX, worldWidth)
        bounceY == BounceAt(newY, worldHeight)
        dirX == IF bounceX THEN PI - bot.direction ELSE bot.direction
        dirY == IF bounceY THEN 0 - dirX ELSE dirX
    IN  [bot EXCEPT
            !.direction = dirY,
            !.x = IF bounceX THEN Bounded(newX, worldWidth) ELSE newX,
            !.y = IF bounceY THEN Bounded(newY, worldHeight) ELSE newY]

\* Lines 201-219: the step of a bot along its heading and the wall bounces.
Stepped(bot) ==
    LET currentSpeed == IF bot.speed # 0 THEN bot.speed ELSE botSpeed
        newX == bot.x + Round(Cos(bot.direction) * currentSpeed, 1000)
        newY == bot.y + Round(Sin(bot.direction) * currentSpeed, 1000)
        bounceX == BounceAt(newX, worldWidth)
        bounceY == BounceAt(newY, worldHeight)
        dirX == IF bounceX THEN PI - bot.direction ELSE bot.direction
        dirY == IF bounceY THEN 0 - dirX ELSE dirX
    IN  [bot EXCEPT
            !.direction = dirY,
            !.targetDirection = IF bounceX \/ bounceY THEN dirY ELSE @,
            !.x = IF bounceX THEN Bounded(newX, worldWidth) ELSE newX,
            !.y = IF bounceY THEN Bounded(newY, worldHeight) ELSE newY]

BotMove(bot) == Stepped(Smoothed(bot))

\* Lines 197-226: the i-th bot moves and its movement is broadcast.
BotMoved(w, i, moved) ==
    [w EXCEPT !.bots[i] = moved,
              !.out = Append(@, Ev("playerMoved", ToAll, moved.id, <<moved.x, moved.y>>))]

\* A faulty variant of lines 228-245: the threat is not looked at.
BotPingBlind(w, i, threat, rs, t) ==
    IF /\ Rnd(rs, w.ri) < botPingChance * 2
       /\ t - w.bots[i].lastPing > pingCooldown
    THEN [w EXCEPT !.bots[i].lastPing = t,
                   !.ri = @ + 1,
                   !.out = Append(@, Ev("pingEmitted", ToAll, w.bots[i].id,
                                        <<w.bots[i].x, w.bots[i].y, t>>))]
    ELSE [w EXCEPT !.ri = @ + 1]

\* Lines 228-245: the ping of the i-th bot; nearestDistance is the distance
\* measured before the bot moved.
BotPing(w, i, threat, rs, t) ==
    IF /\ Rnd(rs, w.ri) < botPingChance * 2
       /\ t - w.bots[i].lastPing > pingCooldown
       /\ (~threat.found \/ threat.d2 > pingBlindDistance * pingBlindDistance)
    THEN [w EXCEPT !.bots[i].lastPing = t,
                   !.ri = @ + 1,
                   !.out = Append(@, Ev("pingEmitted", ToAll, w.bots[i].id,
                                        <<w.bots[i].x, w.bots[i].y, t>>))]
    ELSE [w EXCEPT !.ri = @ + 1]

\* bot.score = Math.floor((Date.now() - bot.joinTime) / 1000) + bot.kills * 100
BotScored(w, i, t) == [w EXCEPT !.bots[i].score = ScoreOf(w.bots[i], t)]

\* Lines 197-245 for the i-th bot.
BotMoveAndPing(w, i, threat, rs, t) ==
    BotPing(BotMoved(w, i, BotMove(w.bots[i])), i, threat, rs, t)

\* The body of bots.forEach for the i-th bot, whose threat is given.
BotAct(w, i, threat, rs, t) ==
    BotMoveAndPing(BotDecide(w, i, threat, rs, t), i, threat, rs, t)

BotStep(w, i, rs, t) ==
    IF ~w.bots[i].alive THEN w
    ELSE BotAct(BotScored(w, i, t), i, Threat(w, w.bots[i]), rs, t)

RECURSIVE UpdateBotsFrom(_, _, _, _)
UpdateBotsFrom(w, i, rs, t) ==
    IF i > Len(w.bots) THEN w ELSE UpdateBotsFrom(BotStep(w, i, rs, t), i + 1, rs, t)

updateBots(w, rs, t) == UpdateBotsFrom(w, 1, rs, t)

-----------------------------------------------------------------------------
(* respawnPlayer: lines 271-288 *)

\* setTimeout(callback, respawnTime) called at time t: the callback of
\* updateBullets calls respawnPlayer at once, the one of playerEliminated
\* first tests players.has.
Timer(t, id, guarded) == [at |-> t + respawnTime, id |-> id, guarded |-> guarded]

\* A faulty variant of lines 274-279: maxHealth is added to the health.
RespawnedHealed(player, rs, k) ==
    [player EXCEPT !.x = Floor(Rnd(rs, k) * worldWidth, 1000),
                   !.y = Floor(Rnd(rs, k + 1) * worldHeight, 1000),
                   !.health = @ + maxHealth,
                   !.alive = TRUE,
                   !.lastShoot = 0,
                   !.lastPing = 0]

\* A faulty variant of lines 274-279: alive is not set.
RespawnedDead(player, rs, k) ==
    [player EXCEPT !.x = Floor(Rnd(rs, k) * worldWidth, 1000),
                   !.y = Floor(Rnd(rs, k + 1) * worldHeight, 1000),
                   !.health = maxHealth,
                   !.lastShoot = 0,
                   !.lastPing = 0]

\* The fields respawnPlayer assigns, at a position drawn by two calls of
\* Math.random().
Respawned(player, rs, k) ==
    [player EXCEPT !.x = Floor(Rnd(rs, k) * worldWidth, 1000),
                   !.y = Floor(Rnd(rs, k + 1) * worldHeight, 1000),
                   !.health = maxHealth,
                   !.alive = TRUE,
                   !.lastShoot = 0,
                   !.lastPing = 0]

\* Lines 274-286 for the i-th player.
RespawnAt(w, i, p) ==
    [w EXCEPT !.players[i] = p,
              !.ri = @ + 2,
              !.out = Append(@, Ev("playerRespawned", ToAll, p.id, <<p.x, p.y, p.health>>))]

respawnPlayer(w, playerId, rs) ==
    IF IndexOf(w.players, playerId) = 0 THEN w
    ELSE RespawnAt(w, IndexOf(w.players, playerId),
                   Respawned(w.players[IndexOf(w.players, playerId)], rs, w.ri))

-----------------------------------------------------------------------------
(* updateBullets: lines 291-371 *)

\* allTargets = [...players.values(), ...bots.values()] as references into the
\* two stores: <<"p", i>> is the i-th player, <<"b", i>> the i-th bot.
AllTargets(w) ==
    [i \in 1 .. Len(w.players) |-> <<"p", i>>] \o [i \in 1 .. Len(w.bots) |-> <<"b", i>>]

Target(w, ref) == IF ref[1] = "p" THEN w.players[ref[2]] ELSE w.bots[ref[2]]

SetTarget(w, ref, e) ==
    IF ref[1] = "p" THEN [w EXCEPT !.players[ref[2]] = e]
    ELSE [w EXCEPT !.bots[ref[2]] = e]

\* players.get(id) || bots.get(id) as a reference, <<"none", 0>> when absent
Lookup(w, id) ==
    IF IndexOf(w.players, id) # 0 THEN <<"p", IndexOf(w.players, id)>>
    ELSE IF IndexOf(w.bots, id) # 0 THEN <<"b", IndexOf(w.bots, id)>>
    ELSE <<"none", 0>>

\* A faulty variant of lines 342-343: the kill is counted twice.
CreditedTwice(shooter) == [shooter EXCEPT !.kills = @ + 2, !.score = @ + 2 * killBonus]

\* shooter.kills++; shooter.score += 100
Credited(shooter) == [shooter EXCEPT !.kills = @ + 1, !.score = @ + killBonus]

CreditAt(w, ref) ==
    IF ref[1] = "none" THEN w ELSE SetTarget(w, ref, Credited(Target(w, ref)))

\* Lines 340-344 and 527-531: the credit for a kill, when the id is found.
CreditKill(w, id) == CreditAt(w, Lookup(w, id))

\* target.health -= bullet.damage
Damaged(target, bullet) == [target EXCEPT !.health = @ - bullet.damage]

\* A faulty variant of lines 311 and 317: the bullet reaches twice as far.
IsHitWide(target, bullet) ==
    /\ target.id # bullet.ownerId
    /\ target.alive
    /\ Dist2(target.x - bullet.x, target.y - bullet.y) < 4 * hitRadius * hitRadius

\* The tests of lines 311 and 317: the target is hit by the bullet.
IsHit(target, bullet) ==
    /\ target.id # bullet.ownerId
    /\ target.alive
    /\ Dist2(target.x - bullet.x, target.y - bullet.y) < hitRadius * hitRadius

\* Lines 319-327: the damage and its broadcast.
ReportHit(w, ref, bullet) ==
    [w EXCEPT !.hits[bullet.id[2]] = @ + 1,
              !.out = Append(@, Ev("playerHit", ToAll, Target(w, ref).id,
                                   <<bullet.damage, Target(w, ref).health>>))]

ApplyHit(w, ref, bullet) ==
    ReportHit(SetTarget(w, ref, Damaged(Target(w, ref), bullet)), ref, bullet)

\* A faulty variant of lines 330-331: the removal is broadcast but the
\* bullet stays in the map.
AnnounceRemoval(w, bullet) ==
    [w EXCEPT !.removed[bullet.id[2]] = @ + 1,
              !.out = Append(@, Ev("bulletRemoved", ToAll, bullet.id, <<>>))]

\* bullets.delete(bulletId); io.emit('bulletRemoved', bulletId)
DeleteBullet(w, bullet) ==
    [w EXCEPT !.bullets = IF IndexOf(@, bullet.id) = 0 THEN @
                          ELSE RemoveAt(@, IndexOf(@, bullet.id)),
              !.removed[bullet.id[2]] = @ + 1,
              !.out = Append(@, Ev("bulletRemoved", ToAll, bullet.id, <<>>))]

\* Lines 335-337
Killed(target) == [target EXCEPT !.alive = FALSE, !.deaths = @ + 1, !.health = 0]

\* Lines 346-353
ReportDeath(w, ref, bullet) ==
    Emit(w, Ev("playerDied", ToAll, Target(w, ref).id,
               <<bullet.ownerId, Target(w, ref).score, Target(w, ref).kills,
                 Target(w, ref).deaths>>))

\* A faulty variant of lines 362-365: the bot is moved but stays dead.
RelocatedBot(bot, rs, k) ==
    [bot EXCEPT !.x = Floor(Rnd(rs, k) * worldWidth, 1000),
                !.y = Floor(Rnd(rs, k + 1) * worldHeight, 1000)]

\* Lines 362-365: a bot is respawned at once, at a position drawn by two
\* calls of Math.random().
RespawnedBot(bot, rs, k) ==
    [bot EXCEPT !.x = Floor(Rnd(rs, k) * worldWidth, 1000),
                !.y = Floor(Rnd(rs, k + 1) * worldHeight, 1000),
                !.health = maxHealth,
                !.alive = TRUE]

\* Lines 355-366
ScheduleRespawn(w, ref, rs, t) ==
    IF ~Target(w, ref).isBot
    THEN [w EXCEPT !.timers = Append(@, Timer(t, Target(w, ref).id, FALSE))]
    ELSE [SetTarget(w, ref, RespawnedBot(Target(w, ref), rs, w.ri)) EXCEPT !.ri = @ + 2]

\* Lines 334-367: the death of the target just hit.
Die(w, ref, bullet, rs, t) ==
    ScheduleRespawn(
        ReportDeath(CreditKill(SetTarget(Mourn(w, Target(w, ref), t), ref,
                                         Killed(Target(w, ref))),
                               bullet.ownerId),
                    ref, bullet),
        ref, rs, t)

\* Line 334
DeathCheck(w, ref, bullet, rs, t) ==
    IF Target(w, ref).health <= 0 THEN Die(w, ref, bullet, rs, t) ELSE w

\* The body of allTargets.forEach for one target (lines 311-368).
HitTest(w, ref, bullet, rs, t) ==
    IF ~IsHit(Target(w, ref), bullet) THEN w
    ELSE DeathCheck(DeleteBullet(ApplyHit(w, ref, bullet), bullet), ref, bullet, rs, t)

RECURSIVE HitTestsFrom(_, _, _, _, _, _)
HitTestsFrom(w, refs, k, bullet, rs, t) ==
    IF k > Len(refs) THEN w
    ELSE HitTestsFrom(HitTest(w, refs[k], bullet, rs, t), refs, k + 1, bullet, rs, t)

\* The ids of the targets the bullet hits in the state w, in the order of
\* allTargets (history).
InRange(w, bullet) ==
    LET near == SelectSeq(AllTargets(w), LAMBDA r : IsHit(Target(w, r), bullet))
    IN  [k \in 1 .. Len(near) |-> Target(w, near[k]).id]

Logged(w, bullet) ==
    [w EXCEPT !.tested = Append(@, [bullet |-> bullet.id[2], owner |-> bullet.ownerId,
                                    near |-> InRange(w, bullet)])]

\* The bullet is dropped without a hit test (lines 300-302).
Expired(bullet, t) ==
    \/ t - bullet.createdAt > bulletLifetime
    \/ bullet.x < 0 \/ bullet.x > worldWidth
    \/ bullet.y < 0 \/ bullet.y > worldHeight

\* Lines 296-297
Flown(bullet) == [bullet EXCEPT !.x = @ + bullet.vx, !.y = @ + bullet.vy]

\* A faulty variant of lines 299-369: no bullet is dropped without a hit
\* test.
BulletCheckAlways(w, i, rs, t) ==
    HitTestsFrom(Logged(w, w.bullets[i]), AllTargets(w), 1, w.bullets[i], rs, t)

\* Lines 299-369 for the i-th bullet.
BulletCheck(w, i, rs, t) ==
    IF Expired(w.bullets[i], t) THEN DeleteBullet(w, w.bullets[i])
    ELSE HitTestsFrom(Logged(w, w.bullets[i]), AllTargets(w), 1, w.bullets[i], rs, t)

\* The body of bullets.forEach for the i-th bullet.
BulletMove(w, i, rs, t) ==
    BulletCheck([w EXCEPT !.bullets[i] = Flown(@)], i, rs, t)

\* bullets.forEach visits the bullets that are in the map when it reaches them.
BulletStep(w, id, rs, t) ==
    IF IndexOf(w.bullets, id) = 0 THEN w
    ELSE BulletMove(w, IndexOf(w.bullets, id), rs, t)

RECURSIVE UpdateBulletsFrom(_, _, _, _, _)
UpdateBulletsFrom(w, ids, k, rs, t) ==
    IF k > Len(ids) THEN w
    ELSE UpdateBulletsFrom(BulletStep(w, ids[k], rs, t), ids, k + 1, rs, t)

updateBullets(w, rs, t) == UpdateBulletsFrom(w, Ids(w.bullets), 1, rs, t)

-----------------------------------------------------------------------------
(* getLeaderboard: lines 374-389 *)

\* (kills / deaths).toFixed(2): the string of the quotient rounded to
\* hundredths, given by its number of hundredths
ToFixed2(kills, deaths) == <<"toFixed", Round(kills * 100, deaths)>>

\* The entry of one player or bot
BoardEntry(player) ==
    [id |-> player.id, name |-> player.name, score |-> player.score,
     kills |-> player.kills, deaths |-> player.deaths,
     kd |-> IF player.deaths = 0 THEN player.kills
            ELSE ToFixed2(player.kills, player.deaths),
     isBot |-> player.isBot, alive |-> player.alive]

\* A faulty variant of the sort: the list is left in the order of the stores.
InsertAtEnd(sorted, e) == Append(sorted, e)

\* Array.prototype.sort with (a, b) => b.score - a.score is stable: e goes
\* behind every element of the sorted list whose score is not below its own.
RECURSIVE InsertByScore(_, _)
InsertByScore(sorted, e) ==
    IF sorted = <<>> THEN <<e>>
    ELSE IF Head(sorted).score >= e.score
    THEN <<Head(sorted)>> \o InsertByScore(Tail(sorted), e)
    ELSE <<e>> \o sorted

RECURSIVE SortByScore(_, _, _)
SortByScore(sorted, list, k) ==
    IF k > Len(list) THEN sorted
    ELSE SortByScore(InsertByScore(sorted, list[k]), list, k + 1)

\* .slice(0, 10)
Slice10(list) == SubSeq(list, 1, Min(10, Len(list)))

\* .map(player => ({...}))
BoardEntries(list) == [k \in 1 .. Len(list) |-> BoardEntry(list[k])]

\* getLeaderboard on the stores given
Leaderboard(ps, bs) == BoardEntries(Slice10(SortByScore(<<>>, ps \o bs, 1)))

getLeaderboard(w) == Leaderboard(w.players, w.bots)

-----------------------------------------------------------------------------
(* The socket handlers: lines 392-598.  Each is a function of the world, the
   socket number s and the time t of its call. *)

NewPlayer(s, rs, k, t) ==
    [id |-> SockId(s), name |-> "Player",
     x |-> Floor(Rnd(rs, k) * worldWidth, 1000),
     y |-> Floor(Rnd(rs, k + 1) * worldHeight, 1000),
     lastPing |-> 0, alive |-> TRUE, joinTime |-> t, score |-> 0, kills |-> 0,
     deaths |-> 0, health |-> maxHealth, lastShoot |-> 0, isBot |-> FALSE]

\* A faulty variant of lines 414-431: playerJoined is emitted to all sockets.
WelcomeAll(w, s, newPlayer) ==
    [w EXCEPT !.out = @ \o <<Ev("gameSetup", ToSocket(s), newPlayer.id,
                                <<newPlayer, gameConfig, w.players \o w.bots>>),
                             Ev("playerJoined", ToAll, newPlayer.id,
                                <<newPlayer.x, newPlayer.y>>)>>]

\* Lines 414-431
Welcome(w, s, newPlayer) ==
    [w EXCEPT !.out = @ \o <<Ev("gameSetup", ToSocket(s), newPlayer.id,
                                <<newPlayer, gameConfig, w.players \o w.bots>>),
                             Ev("playerJoined", ToOthers(s), newPlayer.id,
                                <<newPlayer.x, newPlayer.y>>)>>]

\* io.on('connection'): three calls of Math.random() (x, y, color).
onConnection(w, s, rs, t) ==
    Welcome([w EXCEPT !.players = Append(@, NewPlayer(s, rs, w.ri, t)), !.ri = @ + 3],
            s, NewPlayer(s, rs, w.ri, t))

\* A faulty variant of lines 439-440: no lower limit.
ClampAbove(v, limit) == Min(limit, v)

\* Math.max(0, Math.min(limit, v))
Clamp(v, limit) == Max(0, Min(limit, v))

\* A faulty variant of lines 439-447: the sender is told too.
MoveToAll(w, s, i, x, y) ==
    [w EXCEPT !.players[i].x = x,
              !.players[i].y = y,
              !.out = Append(@, Ev("playerMoved", ToAll, SockId(s), <<x, y>>))]

\* Lines 439-447 for the i-th player.
MoveTo(w, s, i, x, y) ==
    [w EXCEPT !.players[i].x = x,
              !.players[i].y = y,
              !.out = Append(@, Ev("playerMoved", ToOthers(s), SockId(s), <<x, y>>))]

onPlayerMove(w, s, x, y) ==
    IF IndexOf(w.players, SockId(s)) = 0 THEN w
    ELSE IF ~w.players[IndexOf(w.players, SockId(s))].alive THEN w
    ELSE MoveTo(w, s, IndexOf(w.players, SockId(s)),
                Clamp(x, worldWidth), Clamp(y, worldHeight))

\* Lines 455-481 for the player, which is the i-th.
Ping(w, s, i, player, t) ==
    IF t - player.lastPing < pingCooldown
    THEN Emit(w, Ev("pingCooldown", ToSocket(s), player.id,
                    <<pingCooldown - (t - player.lastPing)>>))
    ELSE [w EXCEPT !.players[i].lastPing = t,
                   !.players[i].score = Floor(t - player.joinTime, 1000),
                   !.accepted = (s :> t) @@ @,
                   !.out = Append(@, Ev("pingEmitted", ToAll, player.id,
                                        <<player.x, player.y, t>>))]

onEmitPing(w, s, t) ==
    IF IndexOf(w.players, SockId(s)) = 0 THEN w
    ELSE IF ~w.players[IndexOf(w.players, SockId(s))].alive THEN w
    ELSE Ping(w, s, IndexOf(w.players, SockId(s)),
              w.players[IndexOf(w.players, SockId(s))], t)

\* Lines 489-516 for the i-th player.
Fire(w, i, angle, t) ==
    IF t - w.players[i].lastShoot < shootCooldown THEN w
    ELSE AddBullet([w EXCEPT !.players[i].lastShoot = t,
                             !.fired = (w.players[i].id[2] :> t) @@ @],
                   w.players[i], t, angle)

onShoot(w, s, angle, t) ==
    IF IndexOf(w.players, SockId(s)) = 0 THEN w
    ELSE IF ~w.players[IndexOf(w.players, SockId(s))].alive THEN w
    ELSE Fire(w, IndexOf(w.players, SockId(s)), angle, t)

\* Lines 523-524
Eliminated(player) == [player EXCEPT !.alive = FALSE, !.deaths = @ + 1]

\* Lines 533-547 for the i-th player.
ReportElimination(w, i, eliminatorId, t) ==
    [w EXCEPT !.out = Append(@, Ev("playerDied", ToAll, w.players[i].id,
                                   <<eliminatorId, w.players[i].score,
                                     w.players[i].kills, w.players[i].deaths>>)),
              !.timers = Append(@, Timer(t, w.players[i].id, TRUE))]

\* A faulty variant of lines 522-548: the eliminator gets no credit.
EliminateUncredited(w, i, eliminatorId, t) ==
    ReportElimination([Mourn(w, w.players[i], t) EXCEPT !.players[i] = Eliminated(@)],
                      i, eliminatorId, t)

\* Lines 522-548 for the i-th player.
Eliminate(w, i, eliminatorId, t) ==
    ReportElimination(
        CreditKill([Mourn(w, w.players[i], t) EXCEPT !.players[i] = Eliminated(@)],
                   eliminatorId),
        i, eliminatorId, t)

onPlayerEliminated(w, s, eliminatorId, t) ==
    IF IndexOf(w.players, SockId(s)) = 0 THEN w
    ELSE Eliminate(w, IndexOf(w.players, SockId(s)), eliminatorId, t)

\* Lines 557-567 for the i-th player.
Leave(w, s, i, t) ==
    [w EXCEPT !.players = RemoveAt(@, i),
              !.out = Append(@, Ev("playerLeft", ToOthers(s), SockId(s),
                                   <<Floor(t - w.players[i].joinTime, 1000)>>))]

\* A faulty variant of lines 552-572: the bot population is not managed.
onDisconnectOnly(w, s, rs, t) ==
    IF IndexOf(w.players, SockId(s)) = 0 THEN w
    ELSE Leave(w, s, IndexOf(w.players, SockId(s)), t)

onDisconnect(w, s, rs, t) ==
    IF IndexOf(w.players, SockId(s)) = 0 THEN w
    ELSE manageBotPopulation(Leave(w, s, IndexOf(w.players, SockId(s)), t), rs, t)

\* name || 'Anonymous'
NameOr(name) == IF name = "" THEN "Anonymous" ELSE name

onSetPlayerName(w, s, name) ==
    IF IndexOf(w.players, SockId(s)) = 0 THEN w
    ELSE [w EXCEPT !.players[IndexOf(w.players, SockId(s))].name = NameOr(name),
                   !.out = Append(@, Ev("playerNameUpdated", ToAll, SockId(s),
                                        <<NameOr(name)>>))]

\* A faulty variant of lines 588-598: the message of a socket without a
\* player is broadcast too.
onChatMessageOfAnyone(w, s, message, t) ==
    Emit(w, Ev("chatMessage", ToAll, SockId(s), <<message, t>>))

onChatMessage(w, s, message, t) ==
    IF IndexOf(w.players, SockId(s)) = 0 THEN w
    ELSE Emit(w, Ev("chatMessage", ToAll, SockId(s), <<message, t>>))

\* A faulty variant of the callbacks: a player that is no longer in the map
\* is put back into it.
onTimerRejoin(w, timer, rs) ==
    IF IndexOf(w.players, timer.id) = 0
    THEN RespawnAt([w EXCEPT !.players = Append(@, NewPlayer(timer.id[2], rs, w.ri, 0))],
                   Len(w.players) + 1, NewPlayer(timer.id[2], rs, w.ri, 0))
    ELSE respawnPlayer(w, timer.id, rs)

\* A setTimeout callback (lines 357-359 and 543-547).
onTimer(w, timer, rs) ==
    IF timer.guarded /\ IndexOf(w.players, timer.id) = 0 THEN w
    ELSE respawnPlayer(w, timer.id, rs)

-----------------------------------------------------------------------------
(* The setInterval callback: lines 602-643 *)

\* A faulty variant of lines 612-623: the bonus of the kills is added to the
\* score held.
RescoreOnTop(store, t) ==
    [i \in 1 .. Len(store) |->
        IF store[i].alive THEN [store[i] EXCEPT !.score = @ + store[i].kills * killBonus]
        ELSE store[i]]

\* Lines 612-623: the score of every living player and bot.
Rescore(store, t) ==
    [i \in 1 .. Len(store) |->
        IF store[i].alive THEN [store[i] EXCEPT !.score = ScoreOf(store[i], t)]
        ELSE store[i]]

RescoreAll(w, t) == [w EXCEPT !.players = Rescore(@, t), !.bots = Rescore(@, t)]

\* Lines 625-642: the snapshot, when there is any entity.
Snapshot(w, t) ==
    IF Len(w.players) + Len(w.bots) > 0
    THEN Emit(w, Ev("gameState", ToAll, <<"tick", t>>,
                    <<w.players \o w.bots, w.bullets, getLeaderboard(w)>>))
    ELSE w

\* A faulty variant of the callback: the snapshot is broadcast before the bot
\* population is managed.
onTickEarlySnapshot(w, rs, t) ==
    manageBotPopulation(
        Snapshot(RescoreAll(updateBullets(updateBots(w, rs, t), rs, t), t), t),
        rs, t)

onTick(w, rs, t) ==
    Snapshot(
        RescoreAll(
            manageBotPopulation(updateBullets(updateBots(w, rs, t), rs, t), rs, t),
            t),
        t)

-----------------------------------------------------------------------------
(* The state machine.  The clock moves in steps of one tick period, and the
   callbacks that are due (the interval, the timeouts) run before it moves
   on; socket events arrive at any time, also at the instant of a tick. *)

Commit(w) ==
    /\ players' = w.players
    /\ bots' = w.bots
    /\ bullets' = w.bullets
    /\ bulletIdCounter' = w.bulletIdCounter
    /\ botIdCounter' = w.botIdCounter
    /\ timers' = w.timers
    /\ out' = w.out
    /\ removedCount' = w.removed
    /\ hitCount' = w.hits
    /\ tested' = w.tested
    /\ lastAccepted' = w.accepted
    /\ lastFired' = w.fired
    /\ lastDied' = w.died

\* The state after the module is loaded, t being Date.now() and n the number
\* of connections that will be made.
Boot(t, n) ==
    /\ players = <<>>
    /\ bots = <<>>
    /\ bullets = <<>>
    /\ bulletIdCounter = 0
    /\ botIdCounter = 0
    /\ now = t
    /\ nextTick = t + tickPeriod
    /\ timers = <<>>
    /\ sessions = [s \in 1 .. n |-> "new"]
    /\ listening = FALSE
    /\ out = <<>>
    /\ removedCount = <<>>
    /\ hitCount = <<>>
    /\ tested = <<>>
    /\ lastAccepted = <<>>
    /\ lastFired = <<>>
    /\ lastDied = <<>>

Sockets == DOMAIN sessions

\* The callback of http.listen (lines 646-661).
Listen(rs) ==
    /\ ~listening
    /\ listening' = TRUE
    /\ Commit(manageBotPopulation(World, rs, now))
    /\ UNCHANGED <<now, nextTick, sessions>>

\* Socket s is the s-th connection made.
Connect(s, rs) ==
    /\ listening
    /\ sessions[s] = "new"
    /\ IF s = 1 THEN TRUE ELSE sessions[s - 1] # "new"
    /\ sessions' = [sessions EXCEPT ![s] = "active"]
    /\ Commit(onConnection(World, s, rs, now))
    /\ UNCHANGED <<now, nextTick, listening>>

\* An event of socket s reaches its handler; one that was under way when the
\* socket disconnected may still do so.
Connected(s) == sessions[s] # "new"

PlayerMove(s, x, y) ==
    /\ Connected(s)
    /\ Commit(onPlayerMove(World, s, x, y))
    /\ UNCHANGED <<now, nextTick, sessions, listening>>

EmitPing(s) ==
    /\ Connected(s)
    /\ Commit(onEmitPing(World, s, now))
    /\ UNCHANGED <<now, nextTick, sessions, listening>>

\* At most cap bullets are in flight.
Shoot(s, angle, cap) ==
    /\ Connected(s)
    /\ Len(bullets) < cap
    /\ Commit(onShoot(World, s, angle, now))
    /\ UNCHANGED <<now, nextTick, sessions, listening>>

\* At most cap timeouts are pending at a time.
PlayerEliminated(s, eliminatorId, cap) ==
    /\ Connected(s)
    /\ Len(timers) < cap
    /\ Commit(onPlayerEliminated(World, s, eliminatorId, now))
    /\ UNCHANGED <<now, nextTick, sessions, listening>>

Disconnect(s, rs) ==
    /\ Connected(s)
    /\ sessions' = [sessions EXCEPT ![s] = "disconnected"]
    /\ Commit(onDisconnect(World, s, rs, now))
    /\ UNCHANGED <<now, nextTick, listening>>

SetPlayerName(s, name) ==
    /\ Connected(s)
    /\ Commit(onSetPlayerName(World, s, name))
    /\ UNCHANGED <<now, nextTick, sessions, listening>>

ChatMessage(s, message) ==
    /\ Connected(s)
    /\ Commit(onChatMessage(World, s, message, now))
    /\ UNCHANGED <<now, nextTick, sessions, listening>>

\* At most cap bullets are in flight.
CommitUnder(w, cap) == Len(w.bullets) <= cap /\ Commit(w)

\* The interval is due; it is due again one period later.
Tick(rs, cap) ==
    /\ now >= nextTick
    /\ nextTick' = nextTick + tickPeriod
    /\ CommitUnder(onTick(World, rs, now), cap)
    /\ UNCHANGED <<now, sessions, listening>>

\* The oldest timeout is due (all timeouts have the same delay).
FireTimer(rs) ==
    /\ timers # <<>>
    /\ Head(timers).at <= now
    /\ Commit(onTimer([World EXCEPT !.timers = Tail(timers)], Head(timers), rs))
    /\ UNCHANGED <<now, nextTick, sessions, listening>>

\* The clock moves on by one period, up to the time limit, once the
\* callbacks that are due have run.
AdvanceTime(limit) ==
    /\ now < nextTick
    /\ IF timers = <<>> THEN TRUE ELSE Head(timers).at > now
    /\ now + tickPeriod <= limit
    /\ now' = now + tickPeriod
    /\ out' = <<>>
    /\ tested' = <<>>
    /\ UNCHANGED <<players, bots, bullets, bulletIdCounter, botIdCounter, nextTick,
                   timers, sessions, listening, removedCount, hitCount, lastAccepted,
                   lastFired, lastDied>>

-----------------------------------------------------------------------------
(* Inputs and bounds *)

\* Date.now() when the process starts
StartTime == 10000

\* The six calls of Math.random() of one createBot that put the bot at
\* (2*px, 2*py) with heading and target heading dir (thousandths of a turn).
BotDraws(px, py, dir) == <<0, px, py, 0, dir, dir>>

\* Five bots far from each other and from the centre.
SpawnStream ==
    BotDraws(100, 100, 250) \o BotDraws(500, 100, 250) \o BotDraws(900, 100, 250)
        \o BotDraws(100, 900, 750) \o BotDraws(900, 900, 750)

\* A new or respawned player at the centre of the world.
CentreStream == <<500, 500, 0>>

\* Every call of Math.random() returns 0.5.
HalfStream == <<500>>

\* Every call of Math.random() returns 0.
ZeroStream == <<0>>

-----------------------------------------------------------------------------
(* States reached by a given run, computed with the handlers themselves *)

\* The world when the module is loaded.
EmptyWorld ==
    [players |-> <<>>, bots |-> <<>>, bullets |-> <<>>, bulletIdCounter |-> 0,
     botIdCounter |-> 0, timers |-> <<>>, out |-> <<>>, removed |-> <<>>,
     hits |-> <<>>, tested |-> <<>>, accepted |-> <<>>, fired |-> <<>>,
     died |-> <<>>, ri |-> 0]

\* The world as the next handler finds it.
Fresh(w) == [w EXCEPT !.out = <<>>, !.tested = <<>>, !.ri = 0]

\* The timeouts due at time t run, oldest first.
RECURSIVE FireDue(_, _, _)
FireDue(w, rs, t) ==
    IF w.timers = <<>> THEN w
    ELSE IF Head(w.timers).at > t THEN w
    ELSE FireDue(onTimer(Fresh([w EXCEPT !.timers = Tail(@)]), Head(w.timers), rs), rs, t)

\* n periods pass after time t with no socket event: at each, the timeouts
\* that are due run, then the tick.  (The test of w.ri makes TLC evaluate one
\* period before it starts on the next.)
RECURSIVE Quiet(_, _, _)
Quiet(w, t, n) ==
    IF w.ri < 0 \/ n = 0 THEN w
    ELSE Quiet(onTick(Fresh(FireDue(w, CentreStream, t + tickPeriod)),
                      HalfStream, t + tickPeriod),
               t + tickPeriod, n - 1)

\* A world and the time it has reached.
At(w, t) == [w |-> w, t |-> t]

Later(r, n) == At(Quiet(r.w, r.t, n), r.t + n * tickPeriod)

\* The variables hold the world w at time t, the tick of time t having run,
\* with n sockets of which the first k are connected.
Holds(w, t, n, k) ==
    /\ players = w.players
    /\ bots = w.bots
    /\ bullets = w.bullets
    /\ bulletIdCounter = w.bulletIdCounter
    /\ botIdCounter = w.botIdCounter
    /\ now = t
    /\ nextTick = t + tickPeriod
    /\ timers = w.timers
    /\ sessions = [s \in 1 .. n |-> IF s <= k THEN "active" ELSE "new"]
    /\ listening = TRUE
    /\ out = w.out
    /\ removedCount = w.removed
    /\ hitCount = w.hits
    /\ tested = w.tested
    /\ lastAccepted = w.accepted
    /\ lastFired = w.fired
    /\ lastDied = w.died

\* The server has started and one client has connected.
Joined(t) ==
    onConnection(Fresh(manageBotPopulation(EmptyWorld, SpawnStream, t)), 1,
                 CentreStream, t)

\* A second client has connected.
JoinedTwo(t) == onConnection(Fresh(Joined(t)), 2, CentreStream, t)

\* The clients from the k-th to the n-th connect, in this order.
RECURSIVE JoinedFrom(_, _, _, _)
JoinedFrom(w, k, n, t) ==
    IF k > n THEN w
    ELSE JoinedFrom(onConnection(Fresh(w), k, CentreStream, t), k + 1, n, t)

\* The server has started and n clients have connected.
JoinedMany(n, t) ==
    JoinedFrom(manageBotPopulation(EmptyWorld, SpawnStream, t), 1, n, t)

\* The first player has moved to ten units from the second bot.
Approached(w) == onPlayerMove(Fresh(w), 1, w.bots[2].x, w.bots[2].y + 10)

Stood == At(Approached(Joined(StartTime)), StartTime)

\* The first player stays where it is until the next tick kills it ...
RECURSIVE Doomed(_)
Doomed(r) ==
    IF ~Later(r, 1).w.players[1].alive THEN r ELSE Doomed(Later(r, 1))

\* ... and has been killed by the tick.
Fallen(r) == Later(Doomed(r), 1)

\* The dead player reports its elimination one period after its death.
FallenTwice(r) ==
    At(onPlayerEliminated(Fresh(Later(Fallen(r), 1).w), 1, <<"nobody", 0>>,
                          Fallen(r).t + tickPeriod),
       Fallen(r).t + tickPeriod)

\* One period before the respawn of the player that died at time t.
BeforeRespawnOf(r, t) == Later(r, (t + respawnTime - tickPeriod - r.t) \div tickPeriod)

BeforeRespawn == BeforeRespawnOf(FallenTwice(Stood), Fallen(Stood).t)

-----------------------------------------------------------------------------
(* Observations of a state *)

\* The last handler was the tick (every tick ends with the snapshot, since
\* there is always an entity after manageBotPopulation).
TickRan == out # <<>> /\ out[Len(out)].type = "gameState"

\* Number of events of the type about the id emitted by the last handler
CountOf(events, type, id) ==
    Cardinality({k \in DOMAIN events : events[k].type = type /\ events[k].id = id})

\* The hit tests of the log in which the id was in range
NamedIn(log, id) ==
    {k \in DOMAIN log : \E j \in DOMAIN log[k].near : log[k].near[j] = id}

InWorld(e) == 0 <= e.x /\ e.x <= worldWidth /\ 0 <= e.y /\ e.y <= worldHeight

Entities == {players[i] : i \in DOMAIN players} \cup {bots[i] : i \in DOMAIN bots}

\* The world when the forEach of updateBots reaches the i-th bot, on the
\* stream rs at time t.
RECURSIVE BotsUpdatedBefore(_, _, _, _, _)
BotsUpdatedBefore(w, i, k, rs, t) ==
    IF k >= i THEN w ELSE BotsUpdatedBefore(BotStep(w, k, rs, t), i, k + 1, rs, t)

AtTurn(i, rs) == BotsUpdatedBefore(World, i, 1, rs, now)

\* The i-th bot after lines 106-195 of its turn: its target heading and its
\* speed are set, and it has not yet turned or moved.
Decided(i, rs) ==
    BotDecide(BotScored(AtTurn(i, rs), i, now), i,
              Threat(AtTurn(i, rs), AtTurn(i, rs).bots[i]), rs, now).bots[i]

\* Time of the last accepted ping of socket s, 0 when there is none
AcceptedAt(s) == IF s \in DOMAIN lastAccepted THEN lastAccepted[s] ELSE 0

\* Time of the last accepted shot of socket s, 0 when there is none
FiredAt(s) == IF s \in DOMAIN lastFired THEN lastFired[s] ELSE 0

\* Time at which the player of socket s last went from alive to dead, 0 when
\* it never did
DiedAt(s) == IF s \in DOMAIN lastDied THEN lastDied[s] ELSE 0

-----------------------------------------------------------------------------
(* Spec: every handler, one socket, two ticks; from the start of the process
   and from one period before the respawn of a player that a bot has killed
   and that has then reported its elimination *)

MaxSessions == 1
MaxBullets == 1
MaxTimers == 2
Horizon == 2

\* Positions a client sends: ten units from the second bot, and far outside
\* the world.
MovePoints ==
    {<<0 - 5, 99999>>}
        \cup (IF Len(bots) >= 2 THEN {<<bots[2].x, bots[2].y + 10>>} ELSE {})

\* Angles a client shoots at, in degrees.
ShootAngles == {270}

EliminatorIds == {BotId(0)}

Names == {""}

Messages == {"hi"}

\* A position far outside the world
Corner == {<<0 - 5, 99999>>}

\* An eliminator id that is in neither store
Unknown == {<<"nobody", 0>>}

Init ==
    \/ Boot(StartTime, MaxSessions)
    \/ Holds(Fresh(BeforeRespawn.w), BeforeRespawn.t, MaxSessions, 1)

\* Each of the two runs is followed for Horizon periods.
Limit ==
    IF now >= BeforeRespawn.t THEN BeforeRespawn.t + Horizon * tickPeriod
    ELSE StartTime + Horizon * tickPeriod

Next ==
    \/ Listen(SpawnStream)
    \/ \E s \in Sockets : Connect(s, CentreStream)
    \/ \E s \in Sockets : \E p \in MovePoints : PlayerMove(s, p[1], p[2])
    \/ \E s \in Sockets : EmitPing(s)
    \/ \E s \in Sockets : \E a \in ShootAngles : Shoot(s, a, MaxBullets)
    \/ \E s \in Sockets : \E e \in EliminatorIds : PlayerEliminated(s, e, MaxTimers)
    \/ \E s \in Sockets : Disconnect(s, SpawnStream)
    \/ \E s \in Sockets : \E n \in Names : SetPlayerName(s, n)
    \/ \E s \in Sockets : \E m \in Messages : ChatMessage(s, m)
    \/ Tick(HalfStream, MaxBullets)
    \/ FireTimer(CentreStream)
    \/ AdvanceTime(Limit)

Spec == Init /\ [][Next]_vars

-----------------------------------------------------------------------------
(* Properties checked under Spec *)

\* C4: in every reachable state every player and every bot has
\* 0 <= health <= maxHealth.
HealthInRange == \A e \in Entities : 0 <= e.health /\ e.health <= maxHealth

\* A living player has just been hit once by a bullet.
HealthInRangeWitness ==
    \E i \in DOMAIN players :
        /\ players[i].alive
        /\ players[i].health = maxHealth - bulletDamage
        /\ CountOf(out, "playerHit", players[i].id) = 1

\* C5: in every reachable state, for every entity, alive is false if and
\* only if health is 0.
AliveIffHealthZero == \A e \in Entities : (~e.alive) <=> (e.health = 0)

\* C6: a player that is dead does not die again before it is respawned: no
\* step of a dead player changes its deaths counter or broadcasts a
\* playerDied for it.
DiesOncePerLife ==
    [][\A i \in DOMAIN players :
           (~players[i].alive /\ IndexOf(players', players[i].id) # 0)
               => /\ players'[IndexOf(players', players[i].id)].deaths
                         = players[i].deaths
                  /\ CountOf(out', "playerDied", players[i].id) = 0]_vars

\* Coordinates a client may send, and values of Math.random(), at and beyond
\* the ends of their ranges.
ProbeCoordinates == {0 - 1000000000, 0 - 1, 0, worldWidth, worldWidth + 1, 1000000000}

ProbePoints ==
    {<<c, c>> : c \in ProbeCoordinates} \cup {<<c, worldHeight - c>> : c \in ProbeCoordinates}

ProbeDraws == {0, 999}

\* The player of socket s after the handler of playerMove has run on (x, y)
MovedPlayer(w, s, x, y) ==
    onPlayerMove(w, s, x, y).players[IndexOf(w.players, SockId(s))]

\* C7: every player is inside the world; a playerMove of a living player with
\* any coordinates stores a position inside the world, and a second move to
\* the stored position stores the same position; a player or bot created or
\* respawned now, whatever Math.random() returns, is placed inside the world.
PositionsInWorld ==
    /\ \A i \in DOMAIN players : InWorld(players[i])
    /\ \A s \in Sockets : \A p \in ProbePoints :
           (IndexOf(players, SockId(s)) # 0)
               => /\ InWorld(MovedPlayer(World, s, p[1], p[2]))
                  /\ MovedPlayer(onPlayerMove(World, s, p[1], p[2]), s,
                                 MovedPlayer(World, s, p[1], p[2]).x,
                                 MovedPlayer(World, s, p[1], p[2]).y)
                         = MovedPlayer(World, s, p[1], p[2])
    /\ \A a, b \in ProbeDraws :
           /\ InWorld(NewPlayer(1, <<a, b>>, 0, now))
           /\ InWorld(NewBot(0, <<0, a, b, 0, 0, 0>>, 0, now))
           /\ \A i \in DOMAIN players : InWorld(Respawned(players[i], <<a, b>>, 0))
           /\ \A i \in DOMAIN bots : InWorld(RespawnedBot(bots[i], <<a, b>>, 0))

\* A move far outside the world has been stored at the corner of the world.
PositionsInWorldWitness ==
    \E i \in DOMAIN players :
        /\ players[i].x = 0
        /\ players[i].y = worldHeight
        /\ CountOf(out, "playerMoved", players[i].id) = 1

\* C9: an emitPing of a living player less than pingCooldown after its last
\* accepted ping sends the sender alone a pingCooldown notice with the
\* remaining time and changes no player; any other emitPing of a living
\* player stamps lastPing and broadcasts one pingEmitted to all.
PingCooldownKept ==
    [][\A s \in Sockets :
           (/\ IndexOf(players, SockId(s)) # 0
            /\ players[IndexOf(players, SockId(s))].alive
            /\ EmitPing(s))
               => IF AcceptedAt(s) # 0 /\ now - AcceptedAt(s) < pingCooldown
                  THEN /\ out' = <<Ev("pingCooldown", ToSocket(s), SockId(s),
                                      <<pingCooldown - (now - AcceptedAt(s))>>)>>
                       /\ players' = players
                  ELSE /\ players'[IndexOf(players, SockId(s))].lastPing = now
                       /\ Len(out') = 1
                       /\ out'[1].type = "pingEmitted"
                       /\ out'[1].to = ToAll
                       /\ out'[1].id = SockId(s)]_vars

\* C11: when a respawn callback (of the combat path or of playerEliminated)
\* fires for a player that is no longer in the player store, no player, bot
\* or bullet changes, the player is not put back, nothing is broadcast and
\* only the callback itself is gone.
RespawnCancelled ==
    [][(/\ timers # <<>>
        /\ IndexOf(players, Head(timers).id) = 0
        /\ FireTimer(CentreStream))
           => /\ players' = players
              /\ IndexOf(players', Head(timers).id) = 0
              /\ bots' = bots
              /\ bullets' = bullets
              /\ bulletIdCounter' = bulletIdCounter
              /\ botIdCounter' = botIdCounter
              /\ timers' = Tail(timers)
              /\ out' = <<>>]_vars

\* The player that died twice has disconnected, and both of its respawn
\* callbacks, the one of the combat path and the one of playerEliminated,
\* have fired since.
RespawnCancelledWitness ==
    /\ now = BeforeRespawn.t + 2 * tickPeriod
    /\ sessions[1] = "disconnected"
    /\ IndexOf(players, SockId(1)) = 0
    /\ timers = <<>>
    /\ out = <<>>

\* The step is the handling of an intent of socket s.
Intent(s) ==
    \/ \E p \in MovePoints : PlayerMove(s, p[1], p[2])
    \/ EmitPing(s)
    \/ \E a \in ShootAngles : Shoot(s, a, MaxBullets)
    \/ \E e \in EliminatorIds : PlayerEliminated(s, e, MaxTimers)
    \/ \E n \in Names : SetPlayerName(s, n)
    \/ \E m \in Messages : ChatMessage(s, m)

\* C26: a respawn callback that fires for a player that is in the store and
\* alive changes no player and emits no playerRespawned.
RespawnOnlyOfDead ==
    [][(/\ timers # <<>>
        /\ IndexOf(players, Head(timers).id) # 0
        /\ players[IndexOf(players, Head(timers).id)].alive
        /\ FireTimer(CentreStream))
           => /\ players' = players
              /\ CountOf(out', "playerRespawned", Head(timers).id) = 0]_vars

\* The events of the log that announce a bullet of the owner in the store
BulletsFiredBy(events, bs, ownerId) ==
    {k \in DOMAIN events :
        /\ events[k].type = "bulletFired"
        /\ IndexOf(bs, events[k].id) # 0
        /\ bs[IndexOf(bs, events[k].id)].ownerId = ownerId}

\* C27: whenever a pingEmitted of a player is broadcast, the player's
\* previous pingEmitted, if any, is at least pingCooldown old, and whenever a
\* bullet of a player is created, the player's previous bullet, if any, was
\* created at least shootCooldown before.
BroadcastsSpaced ==
    [][\A s \in Sockets :
           /\ CountOf(out', "pingEmitted", SockId(s)) > 0
                  => /\ CountOf(out', "pingEmitted", SockId(s)) = 1
                     /\ AcceptedAt(s) = 0 \/ now - AcceptedAt(s) >= pingCooldown
           /\ BulletsFiredBy(out', bullets', SockId(s)) # {}
                  => /\ Cardinality(BulletsFiredBy(out', bullets', SockId(s))) = 1
                     /\ FiredAt(s) = 0 \/ now - FiredAt(s) >= shootCooldown]_vars

\* Across the step the health, the deaths and the alive flag of the entities
\* of the store that are dead before it are unchanged.
DeadUntouched(before, after) ==
    \A i \in DOMAIN before :
        ~before[i].alive
            => /\ i \in DOMAIN after
               /\ after[i].id = before[i].id
               /\ after[i].health = before[i].health
               /\ after[i].deaths = before[i].deaths
               /\ after[i].alive = before[i].alive

\* C28: in a tick no bullet has its owner among the entities it hits, a
\* player or bot that is dead before the tick keeps its health, deaths and
\* alive flag, and the health of a dead player is 0 before and after it.
BulletsSpareOwnerAndDead ==
    [][Tick(HalfStream, MaxBullets)
           => /\ \A k \in DOMAIN tested' :
                     \A j \in DOMAIN tested'[k].near :
                         tested'[k].near[j] # tested'[k].owner
              /\ DeadUntouched(players, players')
              /\ DeadUntouched(bots, bots')
              /\ \A i \in DOMAIN players :
                     ~players[i].alive => players[i].health = 0 /\ players'[i].health = 0]_vars

\* C25: a player that is alive has been dead for at least respawnTime since
\* it last went from alive to dead, whether it died of a bullet or by its
\* own playerEliminated.
DeadForRespawnTime ==
    \A s \in Sockets :
        (/\ IndexOf(players, SockId(s)) # 0
         /\ players[IndexOf(players, SockId(s))].alive
         /\ DiedAt(s) # 0)
            => now - DiedAt(s) >= respawnTime

\* The step is an event of socket s or a respawn callback for its player.
EventOf(s) ==
    \/ Intent(s)
    \/ Disconnect(s, SpawnStream)
    \/ timers # <<>> /\ Head(timers).id = SockId(s) /\ FireTimer(CentreStream)

\* C22: a socket whose disconnect handler has run has no player in the
\* store, and any later playerMove, emitPing, shoot, setPlayerName,
\* chatMessage, playerEliminated or disconnect of it, and any respawn
\* callback for it, leaves the players, the bots, the bullets and the
\* counters as they are, keeps its player absent and emits nothing.
DisconnectedIsTerminal ==
    /\ [](\A s \in Sockets :
             sessions[s] = "disconnected" => IndexOf(players, SockId(s)) = 0)
    /\ [][\A s \in Sockets :
             (sessions[s] = "disconnected" /\ EventOf(s))
                 => /\ players' = players
                    /\ bots' = bots
                    /\ bullets' = bullets
                    /\ bulletIdCounter' = bulletIdCounter
                    /\ botIdCounter' = botIdCounter
                    /\ sessions' = sessions
                    /\ Len(timers') <= Len(timers)
                    /\ out' = <<>>]_vars

\* The player that died twice has disconnected and the first of its two
\* respawn callbacks has fired; the second is still pending.
DisconnectedIsTerminalWitness ==
    /\ now = BeforeRespawn.t + tickPeriod
    /\ sessions[1] = "disconnected"
    /\ players = <<>>
    /\ Len(timers) = 1
    /\ timers[1].guarded
    /\ out = <<>>

\* C14: a playerMove, emitPing, shoot, setPlayerName, chatMessage or
\* playerEliminated of a socket whose player is not in the store or is not
\* alive changes no player, bot or bullet, schedules nothing and emits
\* nothing.
IntentsOfMissingIgnored ==
    [][\A s \in Sockets :
           (/\ IF IndexOf(players, SockId(s)) = 0 THEN TRUE
               ELSE ~players[IndexOf(players, SockId(s))].alive
            /\ Intent(s))
               => /\ players' = players
                  /\ bots' = bots
                  /\ bullets' = bullets
                  /\ timers' = timers
                  /\ out' = <<>>]_vars

\* The step of the tick that emits an event of this type: 1 for updateBots,
\* 2 for updateBullets, 3 for manageBotPopulation, 4 for the snapshot
StepOf(type) ==
    IF type \in {"playerMoved", "bulletFired", "pingEmitted"} THEN 1
    ELSE IF type \in {"playerHit", "bulletRemoved", "playerDied"} THEN 2
    ELSE IF type \in {"playerJoined", "playerLeft"} THEN 3
    ELSE IF type = "gameState" THEN 4
    ELSE 0

\* The events are those of the four emitting steps, in the order of the steps.
InStepOrder(events) ==
    /\ \A k \in DOMAIN events : StepOf(events[k].type) # 0
    /\ \A j, k \in DOMAIN events :
           j < k => StepOf(events[j].type) <= StepOf(events[k].type)

\* Every bullet announced by the events has moved on by its velocity since,
\* if it is still among the bullets bs, or else has been removed by a later
\* event.
FiredThenFlown(events, bs) ==
    \A k \in DOMAIN events :
        events[k].type = "bulletFired"
            => IF IndexOf(bs, events[k].id) # 0
               THEN /\ bs[IndexOf(bs, events[k].id)].x
                          = events[k].data[1] + events[k].data[3]
                    /\ bs[IndexOf(bs, events[k].id)].y
                          = events[k].data[2] + events[k].data[4]
               ELSE \E j \in DOMAIN events :
                        /\ j > k
                        /\ events[j].type = "bulletRemoved"
                        /\ events[j].id = events[k].id

\* The snapshot carries the entities ps \o bs, the bullets and the
\* leaderboard of these entities, every living entity with the score
\* recomputed at time t.
IsSnapshotOf(e, ps, bs, bl, t) ==
    /\ e.type = "gameState"
    /\ e.to = ToAll
    /\ e.data = <<ps \o bs, bl, Leaderboard(ps, bs)>>
    /\ \A k \in DOMAIN e.data[1] :
           e.data[1][k].alive => e.data[1][k].score = ScoreOf(e.data[1][k], t)
    /\ \A k \in DOMAIN e.data[3] :
           \E i \in DOMAIN e.data[1] :
               /\ e.data[1][i].id = e.data[3][k].id
               /\ e.data[1][i].score = e.data[3][k].score

\* C17: the events of a tick are those of the bot update, then those of the
\* projectile update (the bullets fired by the bots in this tick have
\* already moved), then those of the population management, then the
\* snapshot; the snapshot is broadcast exactly when the stores are not empty
\* after these steps, once and last, and carries all players and bots, all
\* bullets left and the leaderboard, with the scores recomputed in this
\* tick.  A tick is one step: no handler runs between its parts.
TickInOrder ==
    [][Tick(HalfStream, MaxBullets)
          => /\ InStepOrder(out')
             /\ FiredThenFlown(out', bullets')
             /\ Cardinality({k \in DOMAIN out' : out'[k].type = "gameState"})
                    = IF Len(players') + Len(bots') > 0 THEN 1 ELSE 0
             /\ Len(players') + Len(bots') > 0
                    => IsSnapshotOf(out'[Len(out')], players', bots', bullets', now)
             /\ nextTick' = nextTick + tickPeriod
             /\ now' = now]_vars

\* A tick has run in which a bot has moved and fired, its bullet has hit the
\* player next to it and been removed, and the snapshot has followed.
TickInOrderWitness ==
    /\ TickRan
    /\ \E k \in DOMAIN out : out[k].type = "bulletFired" /\ out[k].id[1] = "bullet"
    /\ \E k \in DOMAIN out : out[k].type = "playerMoved" /\ out[k].id[1] = "bot"
    /\ CountOf(out, "playerHit", SockId(1)) = 1
    /\ \E k \in DOMAIN out : out[k].type = "bulletRemoved"
    /\ bullets = <<>>

-----------------------------------------------------------------------------
(* SpecDuel: two connected players at the centre of the world, which move
   next to the second bot and shoot; three ticks *)

DuelSessions == 2
DuelHorizon == 3

DuelStart == JoinedTwo(StartTime)

DuelPoints == {<<bots[2].x, bots[2].y + 10>>}

InitDuel == Holds(Fresh(DuelStart), StartTime, DuelSessions, 2)

LimitDuel == StartTime + DuelHorizon * tickPeriod

NextDuel ==
    \/ \E s \in Sockets : \E p \in DuelPoints : PlayerMove(s, p[1], p[2])
    \/ \E s \in Sockets : \E a \in ShootAngles : Shoot(s, a, MaxBullets)
    \/ Tick(HalfStream, MaxBullets)
    \/ AdvanceTime(LimitDuel)

SpecDuel == InitDuel /\ [][NextDuel]_vars

\* The sockets that get the event: io.emit reaches every connected socket,
\* socket.broadcast.emit every one but the sender, socket.emit the sender.
Receivers(e) ==
    CASE e.to[1] = "all" -> {r \in Sockets : sessions[r] = "active"}
      [] e.to[1] = "others" -> {r \in Sockets : sessions[r] = "active"} \ {e.to[2]}
      [] OTHER -> {e.to[2]}

\* C24: a playerMove of a socket whose player is in the store and alive
\* changes the x and y of this player and nothing else of any player, bot or
\* bullet, schedules nothing, and emits one playerMoved with the new
\* position, which every connected socket but the sender receives.
MoveOnlyMovesSender ==
    [][\A s \in Sockets : \A p \in DuelPoints :
           (/\ IndexOf(players, SockId(s)) # 0
            /\ players[IndexOf(players, SockId(s))].alive
            /\ PlayerMove(s, p[1], p[2]))
               => /\ players' = [players EXCEPT
                                    ![IndexOf(players, SockId(s))].x = Clamp(p[1], worldWidth),
                                    ![IndexOf(players, SockId(s))].y = Clamp(p[2], worldHeight)]
                  /\ bots' = bots
                  /\ bullets' = bullets
                  /\ timers' = timers
                  /\ bulletIdCounter' = bulletIdCounter
                  /\ botIdCounter' = botIdCounter
                  /\ Len(out') = 1
                  /\ out'[1].type = "playerMoved"
                  /\ out'[1].id = SockId(s)
                  /\ out'[1].data = <<Clamp(p[1], worldWidth), Clamp(p[2], worldHeight)>>
                  /\ Receivers(out'[1]) = {r \in Sockets : sessions[r] = "active"} \ {s}
                  /\ s \notin Receivers(out'[1])]_vars

\* The second player has just moved next to the second bot while the first
\* player stays at the centre, and the other socket is told.
MoveOnlyMovesSenderWitness ==
    /\ Len(out) = 1
    /\ out[1].type = "playerMoved"
    /\ out[1].id = SockId(2)
    /\ Receivers(out[1]) = {1}
    /\ players[2].x = bots[2].x
    /\ players[2].y = bots[2].y + 10
    /\ players[1].x = Quot(worldWidth, 2)
    /\ players[1].y = Quot(worldHeight, 2)

\* The position at which the step tests the bullet with number n: the one
\* it has in the store, or the one of its bulletFired event when the step
\* creates it, moved on by its velocity.
TestedAt(n) ==
    IF IndexOf(bullets, BulletId(n)) # 0
    THEN [x |-> Flown(bullets[IndexOf(bullets, BulletId(n))]).x,
          y |-> Flown(bullets[IndexOf(bullets, BulletId(n))]).y]
    ELSE LET e == out'[CHOOSE k \in DOMAIN out' :
                          out'[k].type = "bulletFired" /\ out'[k].id = BulletId(n)]
         IN  [x |-> e.data[1] + e.data[3], y |-> e.data[2] + e.data[4]]

\* The player is a living player other than the owner at less than 15 units
\* from the point, with the position it has in the store.
InReach(player, owner, point) ==
    /\ player.alive
    /\ player.id # owner
    /\ Dist2(player.x - point.x, player.y - point.y) < hitRadius * hitRadius

\* C33: a playerMove of a living player is in the store when its handler
\* ends, and the tick that follows tests every bullet against the positions
\* that the players have in the store when it starts, which are those of
\* their latest moves: a player is hit by a bullet exactly if it is in
\* reach of it there, unless an earlier bullet of the tick has killed it.
MovesSeenByTick ==
    [][/\ \A s \in Sockets : \A p \in DuelPoints :
              (/\ IndexOf(players, SockId(s)) # 0
               /\ players[IndexOf(players, SockId(s))].alive
               /\ PlayerMove(s, p[1], p[2]))
                  => /\ players'[IndexOf(players, SockId(s))].x = Clamp(p[1], worldWidth)
                     /\ players'[IndexOf(players, SockId(s))].y = Clamp(p[2], worldHeight)
       /\ Tick(HalfStream, MaxBullets)
              => \A k \in DOMAIN tested' : \A i \in DOMAIN players :
                     /\ (\E j \in DOMAIN tested'[k].near :
                             tested'[k].near[j] = players[i].id)
                            => InReach(players[i], tested'[k].owner,
                                       TestedAt(tested'[k].bullet))
                     /\ InReach(players[i], tested'[k].owner, TestedAt(tested'[k].bullet))
                            => \/ \E j \in DOMAIN tested'[k].near :
                                      tested'[k].near[j] = players[i].id
                               \/ CountOf(out', "playerDied", players[i].id) > 0]_vars

\* A tick has hit the second player with the bullet of the first at the
\* place next to the second bot to which the second player has moved from
\* the centre, where it joined.
MovesSeenByTickWitness ==
    /\ TickRan
    /\ players[2].y # Quot(worldHeight, 2)
    /\ \E k \in DOMAIN tested :
           /\ tested[k].owner = SockId(1)
           /\ \E j \in DOMAIN tested[k].near : tested[k].near[j] = SockId(2)
    /\ CountOf(out, "playerHit", SockId(2)) > 0

\* C1: at most one bulletRemoved is broadcast for every bullet, over the
\* whole run.
OneRemovalPerBullet == \A b \in DOMAIN removedCount : removedCount[b] <= 1

\* C2: no bullet damages more than one entity in its whole life.
OneVictimPerBullet == \A b \in DOMAIN hitCount : hitCount[b] <= 1

\* C3: when a tick tests a bullet with a living player B as the only entity
\* in range, B loses bulletDamage once for each bullet that has it in range
\* in this tick, as many playerHit events are broadcast for B, the bullet has
\* hit once and been removed once, and it is no longer in the bullet store
\* after the tick.
SingleHit ==
    [][\A k \in DOMAIN tested' :
           (Len(tested'[k].near) = 1 /\ tested'[k].near[1][1] = "sock")
               => /\ IndexOf(players, tested'[k].near[1]) # 0
                  /\ IndexOf(players', tested'[k].near[1])
                         = IndexOf(players, tested'[k].near[1])
                  /\ players'[IndexOf(players, tested'[k].near[1])].health
                         = players[IndexOf(players, tested'[k].near[1])].health
                             - bulletDamage
                                 * Cardinality(NamedIn(tested', tested'[k].near[1]))
                  /\ CountOf(out', "playerHit", tested'[k].near[1])
                         = Cardinality(NamedIn(tested', tested'[k].near[1]))
                  /\ hitCount'[tested'[k].bullet] = 1
                  /\ removedCount'[tested'[k].bullet] = 1
                  /\ IndexOf(bullets', BulletId(tested'[k].bullet)) = 0]_vars

\* The tick has tested the bullet of a player with one other player alone in
\* range, and that player has been hit.
SingleHitWitness ==
    \E k \in DOMAIN tested :
        /\ tested[k].owner[1] = "sock"
        /\ Len(tested[k].near) = 1
        /\ tested[k].near[1][1] = "sock"
        /\ CountOf(out, "playerHit", tested[k].near[1]) = 1
        /\ IndexOf(bullets, BulletId(tested[k].bullet)) = 0

-----------------------------------------------------------------------------
(* SpecPop: up to MaxHumans clients connect, and the first MaxLeavers of
   them may disconnect, around one tick *)

MaxHumans == 11
MaxLeavers == 6
PopHorizon == 1

Leavers == Sockets \cap (1 .. MaxLeavers)

InitPop == Boot(StartTime, MaxHumans)

LimitPop == StartTime + PopHorizon * tickPeriod

NextPop ==
    \/ Listen(SpawnStream)
    \/ \E s \in Sockets : Connect(s, CentreStream)
    \/ \E s \in Leavers : Disconnect(s, SpawnStream)
    \/ Tick(HalfStream, MaxBullets)
    \/ AdvanceTime(LimitPop)

SpecPop == InitPop /\ [][NextPop]_vars

\* C8 as stated: after every tick minBots <= players.size + bots.size <=
\* maxBots.
PopulationInBounds ==
    TickRan => /\ minBots <= Len(players) + Len(bots)
               /\ Len(players) + Len(bots) <= maxBots

\* C8 amended: after every tick there are at least minBots entities; there
\* are at most maxBots when at most maxBots players are connected, and no
\* bot when more are.
PopulationSettled ==
    TickRan => /\ minBots <= Len(players) + Len(bots)
               /\ Len(players) <= maxBots => Len(players) + Len(bots) <= maxBots
               /\ Len(players) > maxBots => Len(bots) = 0

\* A tick has run with more than maxBots players connected.
PopulationSettledWitness == TickRan /\ Len(players) > maxBots /\ Len(bots) = 0

\* What a call of manageBotPopulation in the state pre may leave as post,
\* total being players.size + bots.size in pre: the players are the same;
\* below minBots the old bots are followed by minBots - total new ones;
\* above maxBots the first min(bots.size, total - maxBots) bots are gone and
\* the others are as they were; otherwise the bots are the same.
ManagedFrom(pre, post, total) ==
    /\ post.players = pre.players
    /\ post.bullets = pre.bullets
    /\ IF total < minBots
       THEN /\ Len(post.bots) = Len(pre.bots) + (minBots - total)
            /\ SubSeq(post.bots, 1, Len(pre.bots)) = pre.bots
            /\ \A j \in 1 .. minBots - total :
                   /\ post.bots[Len(pre.bots) + j].id = BotId(pre.botIdCounter + j - 1)
                   /\ post.bots[Len(pre.bots) + j].isBot
            /\ post.botIdCounter = pre.botIdCounter + (minBots - total)
       ELSE /\ post.botIdCounter = pre.botIdCounter
            /\ IF total > maxBots /\ Len(pre.bots) > 0
               THEN post.bots = SubSeq(pre.bots, Min(Len(pre.bots), total - maxBots) + 1,
                                       Len(pre.bots))
               ELSE post.bots = pre.bots

Managed(pre, rs, t) ==
    ManagedFrom(pre, manageBotPopulation(pre, rs, t), Len(pre.players) + Len(pre.bots))

\* C30: every call of manageBotPopulation that can be made in the state
\* (by the listen callback, by the disconnect of a connected player, by the
\* tick that is due, and by the next tick when there is no bot and no bullet
\* for it to update first) creates exactly minBots - total bots when total is
\* below minBots, removes exactly the first min(bots.size, total - maxBots)
\* bots when total is above maxBots and there are bots, and does nothing
\* otherwise; it never creates and removes, and it leaves the players alone.
PopulationManaged ==
    /\ ~listening => Managed(World, SpawnStream, now)
    /\ \A s \in Leavers :
           IndexOf(players, SockId(s)) # 0
               => Managed(Leave(World, s, IndexOf(players, SockId(s)), now),
                          SpawnStream, now)
    /\ now >= nextTick
           => Managed(updateBullets(updateBots(World, HalfStream, now), HalfStream, now),
                      HalfStream, now)
    /\ (bots = <<>> /\ bullets = <<>>) => Managed(World, HalfStream, nextTick)

\* The tick has run with seven players and five bots: the two bots created
\* first are gone and the three others are left.  Then six players have
\* left one by one, and the last to leave had one bot created.
PopulationManagedWitness ==
    /\ nextTick > StartTime + tickPeriod
    /\ Len(players) = 1
    /\ players[1].id = SockId(MaxLeavers + 1)
    /\ Ids(bots) = <<BotId(2), BotId(3), BotId(4), BotId(5)>>

-----------------------------------------------------------------------------
(* SpecHunt: one player that has moved next to the second bot and shot at it
   in every period until one more hit kills the bot; the player goes on
   moving and shooting; three ticks *)

HuntBullets == 2
HuntHorizon == 3

\* The first player moves to ten units below the second bot and shoots
\* upwards.
Chased(r) == At(onShoot(Fresh(Approached(r.w)), 1, 270, r.t), r.t)

\* The player does so in every period until the bot can take one hit only.
RECURSIVE Hunted(_)
Hunted(r) ==
    IF r.w.bots[2].health <= bulletDamage \/ ~r.w.players[1].alive THEN r
    ELSE Hunted(Later(Chased(r), 1))

AtBay == Hunted(At(Joined(StartTime), StartTime))

InitHunt == Holds(Fresh(AtBay.w), AtBay.t, MaxSessions, 1)

LimitHunt == AtBay.t + HuntHorizon * tickPeriod

NextHunt ==
    \/ \E s \in Sockets : \E p \in DuelPoints : PlayerMove(s, p[1], p[2])
    \/ \E s \in Sockets : \E a \in ShootAngles : Shoot(s, a, HuntBullets)
    \/ Tick(HalfStream, HuntBullets)
    \/ AdvanceTime(LimitHunt)

SpecHunt == InitHunt /\ [][NextHunt]_vars

\* The timeouts that are for the id
TimersOf(ts, id) == {k \in DOMAIN ts : ts[k].id = id}

\* C23: in every state every bot is alive with health above 0; a bot for
\* which a tick broadcasts playerDied has, after this tick, full health, is
\* alive, is at a position inside the world, has one death more for each
\* playerDied, and no respawn callback is scheduled for it.
BotsNeverDead ==
    /\ [](\A i \in DOMAIN bots : bots[i].alive /\ bots[i].health > 0)
    /\ [][Tick(HalfStream, HuntBullets)
             => \A i \in DOMAIN bots :
                    CountOf(out', "playerDied", bots[i].id) > 0
                        => /\ i \in DOMAIN bots'
                           /\ bots'[i].id = bots[i].id
                           /\ bots'[i].health = maxHealth
                           /\ bots'[i].alive
                           /\ bots'[i].x \in 0 .. worldWidth
                           /\ bots'[i].y \in 0 .. worldHeight
                           /\ bots'[i].deaths
                                  = bots[i].deaths + CountOf(out', "playerDied", bots[i].id)
                           /\ TimersOf(timers', bots[i].id) = {}]_vars

\* The tick has just killed the second bot with the bullet of the player:
\* the bot is alive at the centre of the world, where the two calls of
\* Math.random() have put it, with full health and its first death.
BotsNeverDeadWitness ==
    /\ CountOf(out, "playerDied", BotId(1)) = 1
    /\ bots[2].id = BotId(1)
    /\ bots[2].alive
    /\ bots[2].health = maxHealth
    /\ bots[2].deaths = 1
    /\ bots[2].x = Quot(worldWidth, 2)
    /\ bots[2].y = Quot(worldHeight, 2)
    /\ players[1].kills = 1
    /\ timers = <<>>

-----------------------------------------------------------------------------
(* SpecReload: from one period before the respawn of a player that a bot has
   killed and that has then reported its elimination; the player moves and
   shoots; two ticks *)

ReloadBullets == 2

InitReload == Holds(Fresh(BeforeRespawn.w), BeforeRespawn.t, MaxSessions, 1)

LimitReload == BeforeRespawn.t + Horizon * tickPeriod

NextReload ==
    \/ \E s \in Sockets : \E p \in Corner : PlayerMove(s, p[1], p[2])
    \/ \E s \in Sockets : \E a \in ShootAngles : Shoot(s, a, ReloadBullets)
    \/ Tick(HalfStream, ReloadBullets)
    \/ FireTimer(CentreStream)
    \/ AdvanceTime(LimitReload)

SpecReload == InitReload /\ [][NextReload]_vars

\* C15: a shoot of a living player less than shootCooldown after its last
\* accepted shot adds no bullet, emits nothing and changes no player; any
\* other shoot of a living player stamps lastShoot with the time, adds one
\* bullet owned by the player at the player's position and broadcasts one
\* bulletFired to all.
ShootCooldownKept ==
    [][\A s \in Sockets :
           (/\ IndexOf(players, SockId(s)) # 0
            /\ players[IndexOf(players, SockId(s))].alive
            /\ \E a \in ShootAngles : Shoot(s, a, ReloadBullets))
               => IF FiredAt(s) # 0 /\ now - FiredAt(s) < shootCooldown
                  THEN /\ bullets' = bullets
                       /\ players' = players
                       /\ out' = <<>>
                  ELSE /\ players'[IndexOf(players, SockId(s))].lastShoot = now
                       /\ Len(bullets') = Len(bullets) + 1
                       /\ SubSeq(bullets', 1, Len(bullets)) = bullets
                       /\ bullets'[Len(bullets')].ownerId = SockId(s)
                       /\ bullets'[Len(bullets')].x = players[IndexOf(players, SockId(s))].x
                       /\ bullets'[Len(bullets')].y = players[IndexOf(players, SockId(s))].y
                       /\ Len(out') = 1
                       /\ out'[1].type = "bulletFired"
                       /\ out'[1].to = ToAll
                       /\ out'[1].id = bullets'[Len(bullets')].id]_vars

-----------------------------------------------------------------------------
(* SpecBoard: MaxHumans connected players and the five bots of the start;
   the first players report eliminations by other players and by a bot, which
   spreads the scores; one tick *)

BoardTimers == 3

BoardVictims == {1, 2}

BoardEliminators == {SockId(2), SockId(MaxHumans), BotId(4)}

InitBoard == Holds(Fresh(JoinedMany(MaxHumans, StartTime)), StartTime, MaxHumans, MaxHumans)

NextBoard ==
    \/ \E s \in BoardVictims : \E e \in BoardEliminators :
           PlayerEliminated(s, e, BoardTimers)
    \/ Tick(HalfStream, MaxBullets)
    \/ AdvanceTime(LimitPop)

SpecBoard == InitBoard /\ [][NextBoard]_vars

\* getLeaderboard() in the current state
Board == Leaderboard(players, bots)

\* The positions in the list all of the entities that are not on the board
OffBoard(board, all) ==
    {i \in 1 .. Len(all) : \A k \in DOMAIN board : board[k].id # all[i].id}

\* The board has min(10, number of entities) entries, each the entry of a
\* different entity of the list all, in non-increasing order of score, with
\* no entity left out that has a higher score than an entry, and kd is the
\* kills of every entry without deaths.
IsLeaderboardOf(board, all) ==
    /\ Len(board) <= 10
    /\ Len(board) = Min(10, Len(all))
    /\ \A k \in DOMAIN board :
           \E i \in DOMAIN all :
               /\ board[k].id = all[i].id
               /\ board[k].score = all[i].score
               /\ board[k].kills = all[i].kills
               /\ board[k].deaths = all[i].deaths
    /\ \A j, k \in DOMAIN board : j < k => board[j].id # board[k].id
    /\ \A j, k \in DOMAIN board : j < k => board[j].score >= board[k].score
    /\ \A i \in OffBoard(board, all) : \A k \in DOMAIN board :
           board[k].score >= all[i].score
    /\ \A k \in DOMAIN board : board[k].deaths = 0 => board[k].kd = board[k].kills

\* C13: in every state getLeaderboard returns min(10, players.size +
\* bots.size) entries, each the entry of a different player or bot with that
\* entity's score, kills and deaths, in non-increasing order of score; no
\* entity left out has a higher score than an entry; and an entry with
\* deaths 0 has kd equal to its kills.  The leaderboard of a snapshot is the
\* one of the state the tick leaves.
LeaderboardSorted ==
    /\ IsLeaderboardOf(Board, players \o bots)
    /\ TickRan => IsLeaderboardOf(out[Len(out)].data[3], players \o bots)

\* The first entry of the board has kills, no deaths and a higher score than
\* the tenth, an entry has deaths, and an entity is left out.
Spread(board, all) ==
    /\ Len(all) > 10
    /\ Len(board) = 10
    /\ board[1].score > board[10].score
    /\ board[1].deaths = 0
    /\ board[1].kills > 0
    /\ board[1].kd = board[1].kills
    /\ \E k \in DOMAIN board : board[k].deaths > 0
    /\ OffBoard(board, all) # {}

\* A tick has broadcast such a leaderboard of ten of eleven players.
LeaderboardSortedWitness == TickRan /\ Spread(out[Len(out)].data[3], players \o bots)

\* The ids of the players and bots in the stores given
IdSet(ps, bs) == {ps[i].id : i \in DOMAIN ps} \cup {bs[i].id : i \in DOMAIN bs}

\* The events are one playerJoined for every id of after that is not in
\* before, one playerLeft for every id of before that is not in after, and
\* no other playerJoined or playerLeft.
NotifiedOnce(events, before, after) ==
    /\ \A id \in after \ before : CountOf(events, "playerJoined", id) = 1
    /\ \A id \in before \ after : CountOf(events, "playerLeft", id) = 1
    /\ \A k \in DOMAIN events :
           /\ events[k].type = "playerJoined" => events[k].id \in after \ before
           /\ events[k].type = "playerLeft" => events[k].id \in before \ after

\* C16: in every step, each player or bot that is put into its store is
\* announced by exactly one playerJoined and each player or bot that is taken
\* out of its store by exactly one playerLeft, and there is no other
\* playerJoined or playerLeft; removeBot of an id that is not in the bot
\* store changes nothing and emits nothing.
LifecycleNotified ==
    [][/\ NotifiedOnce(out', IdSet(players, bots), IdSet(players', bots'))
       /\ \A n \in 0 .. botIdCounter :
              IndexOf(bots, BotId(n)) = 0 => removeBot(World, BotId(n)) = World]_vars

\* A tick has removed a bot, with one playerLeft for it, while players are
\* connected.
LifecycleNotifiedWitness ==
    /\ TickRan
    /\ \E k \in DOMAIN out :
           /\ out[k].type = "playerLeft"
           /\ out[k].id[1] = "bot"
           /\ IndexOf(bots, out[k].id) = 0
           /\ CountOf(out, "playerLeft", out[k].id) = 1
    /\ Len(players) > 0

\* C18: a disconnect of a socket whose player is in the store sends the other
\* sockets one playerLeft with the player's id and final score, as the first
\* event, removes this player and no other, and then manages the bot
\* population (the only other events are a playerJoined or playerLeft per
\* bot), so that players.size + bots.size >= minBots after the handler; a
\* disconnect of a socket whose player is not in the store changes nothing
\* and emits nothing.
DisconnectSettles ==
    [][\A s \in Leavers :
           Disconnect(s, SpawnStream)
               => IF IndexOf(players, SockId(s)) # 0
                  THEN /\ out' # <<>>
                       /\ out'[1] = Ev("playerLeft", ToOthers(s), SockId(s),
                                       <<Floor(now - players[IndexOf(players, SockId(s))].joinTime,
                                               1000)>>)
                       /\ CountOf(out', "playerLeft", SockId(s)) = 1
                       /\ players' = RemoveAt(players, IndexOf(players, SockId(s)))
                       /\ \A k \in 2 .. Len(out') :
                              /\ out'[k].type \in {"playerJoined", "playerLeft"}
                              /\ out'[k].id[1] = "bot"
                              /\ out'[k].to = ToAll
                       /\ Len(players') + Len(bots') >= minBots
                  ELSE /\ players' = players
                       /\ bots' = bots
                       /\ bullets' = bullets
                       /\ out' = <<>>]_vars

\* A player has just disconnected, leaving four players and no bot, and the
\* handler has created the bot that was missing.
DisconnectSettlesWitness ==
    /\ Len(out) = 2
    /\ out[1].type = "playerLeft"
    /\ out[1].to[1] = "others"
    /\ IndexOf(players, out[1].id) = 0
    /\ out[2].type = "playerJoined"
    /\ IndexOf(bots, out[2].id) # 0
    /\ Len(players) = minBots - 1
    /\ Len(bots) = 1

\* The player is as a connection creates it for socket s.
IsNewPlayerOf(p, s) ==
    /\ p.id = SockId(s)
    /\ p.alive
    /\ ~p.isBot
    /\ p.health = maxHealth
    /\ p.score = 0
    /\ p.kills = 0
    /\ p.deaths = 0
    /\ InWorld(p)

\* The events are the gameSetup for socket s alone, with its id, the player
\* p, the configuration and the entities given, followed by the playerJoined
\* of p for the other sockets.
IsWelcomeOf(events, s, p, all) ==
    /\ Len(events) = 2
    /\ events[1] = Ev("gameSetup", ToSocket(s), SockId(s), <<p, gameConfig, all>>)
    /\ events[2].type = "playerJoined"
    /\ events[2].to = ToOthers(s)
    /\ events[2].id = SockId(s)
    /\ \E k \in DOMAIN all : all[k] = p

\* C19: a connection of socket s appends to the player store a living
\* player with the socket's id, health maxHealth, score, kills and deaths 0
\* and a position inside the world, changes no other player, bot or bullet,
\* and emits two events: first gameSetup to socket s alone, with the id, the
\* new player, gameConfig and all players and bots of the new state (the new
\* player among them), then playerJoined to the other sockets.
ConnectionWelcomed ==
    [][\A s \in Sockets :
           Connect(s, CentreStream)
               => /\ Len(players') = Len(players) + 1
                  /\ SubSeq(players', 1, Len(players)) = players
                  /\ IsNewPlayerOf(players'[Len(players')], s)
                  /\ players'[Len(players')].joinTime = now
                  /\ bots' = bots
                  /\ bullets' = bullets
                  /\ IsWelcomeOf(out', s, players'[Len(players')], players' \o bots')]_vars

\* The second client has just connected: its gameSetup lists both players
\* and the bots, and the playerJoined goes to the others.
ConnectionWelcomedWitness ==
    /\ Len(players) = 2
    /\ Len(bots) = minBots
    /\ IsNewPlayerOf(players[2], 2)
    /\ IsWelcomeOf(out, 2, players[2], players \o bots)
    /\ Len(out[1].data[3]) = 2 + minBots

\* The entity after is the entity before with k kills more, killBonus of
\* score for each, and, when it is the reporter, dead with one death more.
AfterReport(before, after, k, reporter) ==
    after = [before EXCEPT !.kills = @ + k,
                           !.score = @ + k * killBonus,
                           !.alive = IF reporter THEN FALSE ELSE @,
                           !.deaths = IF reporter THEN @ + 1 ELSE @]

\* Every entity of the store after is the one of the store before, the one
\* with the id of the eliminator credited with a kill and the one with the
\* id of the reporter dead.
StoreAfterReport(before, after, eliminatorId, reporterId) ==
    /\ Len(after) = Len(before)
    /\ \A i \in DOMAIN before :
           AfterReport(before[i], after[i],
                       IF before[i].id = eliminatorId THEN 1 ELSE 0,
                       before[i].id = reporterId)

\* C21: a playerEliminated(e) of a socket whose player is in the store makes
\* this player dead with one death more, gives the player or bot with id e,
\* if there is one, one kill and 100 of score, changes nothing else in the
\* stores, broadcasts one playerDied for the reporter naming e, and adds one
\* respawn callback for the reporter, due respawnTime later.
EliminationReported ==
    [][\A s \in BoardVictims : \A e \in BoardEliminators :
           (IndexOf(players, SockId(s)) # 0 /\ PlayerEliminated(s, e, BoardTimers))
               => /\ StoreAfterReport(players, players', e, SockId(s))
                  /\ StoreAfterReport(bots, bots', e, SockId(s))
                  /\ bullets' = bullets
                  /\ Len(out') = 1
                  /\ out'[1].type = "playerDied"
                  /\ out'[1].to = ToAll
                  /\ out'[1].id = SockId(s)
                  /\ out'[1].data[1] = e
                  /\ timers' = Append(timers, [at |-> now + respawnTime,
                                               id |-> SockId(s), guarded |-> TRUE])]_vars

\* The second player has just reported its elimination by a bot that the
\* tick has removed: it is dead, nobody is credited, and its respawn is
\* scheduled.
EliminationReportedWitness ==
    /\ Len(bots) = 0
    /\ Len(out) = 1
    /\ out[1].type = "playerDied"
    /\ out[1].id = SockId(2)
    /\ out[1].data[1] = BotId(4)
    /\ ~players[2].alive
    /\ players[2].deaths = 1
    /\ timers # <<>>
    /\ timers[Len(timers)] = [at |-> now + respawnTime, id |-> SockId(2), guarded |-> TRUE]
    /\ \E i \in DOMAIN players : players[i].kills = 1

-----------------------------------------------------------------------------
(* SpecRespawn: from one period before the tick in which the second bot kills
   the player standing next to it, until after the respawn.  An interval
   callback that is due runs, a timeout that is due runs, and the clock
   moves on. *)

RespawnSlack == 2
RespawnBullets == 5

LastStand == Doomed(Stood)

InitRespawn == Holds(Fresh(LastStand.w), LastStand.t, MaxSessions, 1)

LimitRespawn == LastStand.t + tickPeriod + respawnTime + RespawnSlack * tickPeriod

NextRespawn ==
    \/ \E s \in Sockets : \E p \in Corner : PlayerMove(s, p[1], p[2])
    \/ \E s \in Sockets : \E e \in Unknown : PlayerEliminated(s, e, MaxTimers)
    \/ \E s \in Sockets : Disconnect(s, SpawnStream)
    \/ Tick(HalfStream, RespawnBullets)
    \/ FireTimer(CentreStream)
    \/ AdvanceTime(LimitRespawn)

\* The setInterval callback runs: nextTick moves on by one period.
TickRuns == now >= nextTick /\ nextTick' = nextTick + tickPeriod

SpecRespawn ==
    /\ InitRespawn
    /\ [][NextRespawn]_vars
    /\ WF_nextTick(TickRuns)
    /\ WF_vars(FireTimer(CentreStream))
    /\ WF_vars(AdvanceTime(LimitRespawn))

\* The bound on the bullets in flight holds up no tick of SpecRespawn.
TickNotHeldUp ==
    now >= nextTick => Len(onTick(World, HalfStream, now).bullets) <= RespawnBullets

\* The tick that has just run has killed the player of socket s.
KilledByTick(s) == TickRan /\ CountOf(out, "playerDied", SockId(s)) > 0

\* The timeout that has just run has respawned the player of socket s.
RespawnedNow(s) ==
    /\ IndexOf(players, SockId(s)) # 0
    /\ players[IndexOf(players, SockId(s))].alive
    /\ players[IndexOf(players, SockId(s))].health = maxHealth
    /\ InWorld(players[IndexOf(players, SockId(s))])
    /\ out = <<Ev("playerRespawned", ToAll, SockId(s),
                  <<players[IndexOf(players, SockId(s))].x,
                    players[IndexOf(players, SockId(s))].y, maxHealth>>)>>

\* C10: a player killed by a bullet is dead, with health 0, when the tick
\* ends; and if the run lasts respawnTime longer, then the player disconnects
\* or a timeout respawns it: alive, health maxHealth, inside the world, with
\* one playerRespawned broadcast.
RespawnAfterCombatDeath ==
    \A s \in 1 .. MaxSessions :
        /\ [](KilledByTick(s)
                => /\ IndexOf(players, SockId(s)) # 0
                   /\ ~players[IndexOf(players, SockId(s))].alive
                   /\ players[IndexOf(players, SockId(s))].health = 0)
        /\ (KilledByTick(s) /\ now + respawnTime <= LimitRespawn)
               ~> (sessions[s] = "disconnected" \/ RespawnedNow(s))

\* The entities of the snapshot that the last handler broadcast
SnapshotEntities == out[Len(out)].data[1]

\* C12: when a tick has broadcast its snapshot, every living player and bot,
\* in the stores and in the snapshot, has score
\* floor((now - joinTime) / 1000) + kills * 100, and recomputing the scores
\* again at the same time changes none; in every state, recomputing twice
\* gives what recomputing once gives.
ScoresAtSnapshot ==
    /\ TickRan
          => /\ \A e \in Entities : e.alive => e.score = ScoreOf(e, now)
             /\ SnapshotEntities = players \o bots
             /\ \A k \in DOMAIN SnapshotEntities :
                    SnapshotEntities[k].alive
                        => SnapshotEntities[k].score = ScoreOf(SnapshotEntities[k], now)
             /\ Rescore(players, now) = players
             /\ Rescore(bots, now) = bots
    /\ Rescore(Rescore(players, now), now) = Rescore(players, now)
    /\ Rescore(Rescore(bots, now), now) = Rescore(bots, now)

\* The tick in which the second bot killed the player has broadcast its
\* snapshot: the bot has one kill and its score counts the kill once.
ScoresAtSnapshotWitness ==
    /\ TickRan
    /\ CountOf(out, "playerDied", SockId(1)) = 1
    /\ bots[2].kills = 1
    /\ bots[2].alive
    /\ bots[2].score = Floor(now - bots[2].joinTime, 1000) + killBonus

\* The player that the second bot killed has been respawned.
RespawnAfterCombatDeathWitness ==
    /\ RespawnedNow(1)
    /\ players[1].deaths = 1
    /\ bots[2].kills = 1
    /\ now = LastStand.t + tickPeriod + respawnTime

-----------------------------------------------------------------------------
(* SpecCredit: from one period before the tick in which a bullet of the
   second bot kills the player standing next to it, with CreditPlayers
   players connected; while the bullet flies, the last players may
   disconnect, which makes the population management remove the first bots,
   the owner of the bullet among them; two ticks *)

CreditPlayers == 8

CreditLeavers == {CreditPlayers - 1, CreditPlayers}

CreditStart == JoinedFrom(LastStand.w, 2, CreditPlayers, LastStand.t)

InitCredit == Holds(Fresh(CreditStart), LastStand.t, CreditPlayers, CreditPlayers)

LimitCredit == LastStand.t + Horizon * tickPeriod

NextCredit ==
    \/ \E s \in CreditLeavers : Disconnect(s, SpawnStream)
    \/ \E s \in CreditLeavers : \E p \in Corner : PlayerMove(s, p[1], p[2])
    \/ \E s \in CreditLeavers : EmitPing(s)
    \/ Tick(HalfStream, RespawnBullets)
    \/ AdvanceTime(LimitCredit)

SpecCredit == InitCredit /\ [][NextCredit]_vars

\* Number of playerDied events that name the id as the victim's eliminator
KillsOf(events, id) ==
    Cardinality({k \in DOMAIN events :
                    events[k].type = "playerDied" /\ events[k].data[1] = id})

\* Between the worlds pre and post every entity of the store (field f) has
\* as many deaths more as playerDied events were emitted for it, and as many
\* kills more, with killBonus of score for each, as playerDied events name
\* it as the eliminator.
CreditedIn(pre, post, f) ==
    /\ Len(post[f]) = Len(pre[f])
    /\ \A i \in DOMAIN pre[f] :
           /\ post[f][i].id = pre[f][i].id
           /\ post[f][i].deaths
                  = pre[f][i].deaths + CountOf(post.out, "playerDied", pre[f][i].id)
           /\ post[f][i].kills = pre[f][i].kills + KillsOf(post.out, pre[f][i].id)
           /\ post[f][i].score
                  = pre[f][i].score + killBonus * KillsOf(post.out, pre[f][i].id)

\* The same for updateBullets run at time t on the world pre.
CreditedBy(pre, t) ==
    /\ CreditedIn(pre, updateBullets(pre, HalfStream, t), "players")
    /\ CreditedIn(pre, updateBullets(pre, HalfStream, t), "bots")

\* C20: when a tick is due, its updateBullets raises the deaths of every
\* target whose health a hit brings to 0 by one, with one playerDied for
\* it, and gives the owner of the bullet, if the id is in the player or bot
\* store, one kill and 100 of score for each such death; for an owner id
\* that is in neither store the death is applied and broadcast all the same
\* and the kills and score of every entity stay as they are.
KillCredited ==
    now >= nextTick => CreditedBy(Fresh(updateBots(World, HalfStream, now)), now)

\* The tick has run in which the bullet of the second bot killed the first
\* player after the bot had been removed: the death is counted and
\* broadcast, and nobody has a kill.
KillCreditedWitness ==
    /\ TickRan
    /\ CountOf(out, "playerDied", SockId(1)) = 1
    /\ KillsOf(out, BotId(1)) = 1
    /\ IndexOf(bots, BotId(1)) = 0
    /\ \A k \in DOMAIN out : out[k].type # "playerLeft"
    /\ ~players[1].alive
    /\ players[1].deaths = 1
    /\ \A e \in Entities : e.kills = 0


-----------------------------------------------------------------------------
(* SpecFlight: one player at the centre of the world, far from every bot,
   which may move to the middle of the lower edge and shoots upwards or
   downwards; the ticks run for longer than the life of a bullet *)

FlightBullets == 1
FlightHorizon == 23

\* The middle of the lower edge, given with a y beyond it
FlightPoints == {<<Quot(worldWidth, 2), worldHeight + 50>>}

\* Upwards (y falls) and downwards (y grows)
FlightAngles == {270, 90}

InitFlight == Holds(Fresh(Joined(StartTime)), StartTime, MaxSessions, 1)

LimitFlight == StartTime + FlightHorizon * tickPeriod

NextFlight ==
    \/ \E s \in Sockets : \E p \in FlightPoints : PlayerMove(s, p[1], p[2])
    \/ \E s \in Sockets : \E a \in FlightAngles : Shoot(s, a, FlightBullets)
    \/ Tick(HalfStream, FlightBullets)
    \/ AdvanceTime(LimitFlight)

SpecFlight ==
    /\ InitFlight
    /\ [][NextFlight]_vars
    /\ WF_nextTick(TickRuns)
    /\ WF_vars(AdvanceTime(LimitFlight))

\* The bound on the bullets in flight holds up no tick of SpecFlight.
FlightNotHeldUp ==
    now >= nextTick => Len(onTick(World, HalfStream, now).bullets) <= FlightBullets

\* The numbers of the bullets that the run can create
FlightBulletNumbers == 0 .. (FlightHorizon * tickPeriod) \div shootCooldown

\* The bullet with number n is in the store.
InFlight(n) == IndexOf(bullets, BulletId(n)) # 0

\* The tick at which the age of the bullet with number n exceeds
\* bulletLifetime is within the run.
OutlivedInRun(n) ==
    /\ InFlight(n)
    /\ bullets[IndexOf(bullets, BulletId(n))].createdAt + bulletLifetime + tickPeriod
           <= LimitFlight

\* C29: a bullet that, moved by its velocity, is older than bulletLifetime
\* or outside the world when a tick runs is not in the store after this
\* tick, one bulletRemoved is broadcast for it and it is not hit-tested in
\* this tick; and every bullet whose lifetime ends within the run is
\* eventually out of the store, the ticks being run whenever they are due.
ExpiredBulletsRemoved ==
    /\ [][Tick(HalfStream, FlightBullets)
             => \A i \in DOMAIN bullets :
                    Expired(Flown(bullets[i]), now)
                        => /\ IndexOf(bullets', bullets[i].id) = 0
                           /\ CountOf(out', "bulletRemoved", bullets[i].id) = 1
                           /\ \A k \in DOMAIN tested' :
                                  tested'[k].bullet # bullets[i].id[2]]_vars
    /\ \A n \in FlightBulletNumbers : OutlivedInRun(n) ~> ~InFlight(n)

\* A tick has just removed, without testing it, the second bullet of the
\* player, which was shot upwards from the lower edge more than
\* bulletLifetime ago; the first bullet, shot downwards from there, left the
\* world and was removed before the second was shot.
ExpiredBulletsRemovedWitness ==
    /\ TickRan
    /\ bullets = <<>>
    /\ tested = <<>>
    /\ bulletIdCounter = 2
    /\ CountOf(out, "bulletRemoved", BulletId(1)) = 1
    /\ removedCount[0] = 1
    /\ hitCount[0] = 0
    /\ now - FiredAt(1) > bulletLifetime
    /\ players[1].y = worldHeight

-----------------------------------------------------------------------------
(* SpecBounce: the first of the five bots is created at a corner, at an edge,
   inside the 50-unit margin or at the centre, with one of four headings and
   one of four target headings, the other bots far from it and no player;
   or a player is next to the second bot, which one more hit kills.  Three
   ticks, in which Math.random() returns 0.5 or 0. *)

BounceBullets == 3
BounceHorizon == 3

\* Values of Math.random(), in thousandths, for the x and for the y of the
\* first bot: 0, 40, 1000, 1960 and 1998
BounceCoordinates == {0, 20, 500, 980, 999}

\* Values of Math.random() for its direction and targetDirection: 0, 90,
\* 180 and 270 degrees
BounceHeadings == {0, 250, 500, 750}

\* The calls of Math.random() of the five createBot
BounceStream(px, py, dir, target) ==
    <<0, px, py, 0, dir, target>>
        \o BotDraws(250, 250, 250) \o BotDraws(750, 250, 250)
        \o BotDraws(250, 750, 750) \o BotDraws(750, 750, 750)

InitBounce ==
    \/ \E px, py \in BounceCoordinates : \E dir, target \in BounceHeadings :
           Holds(Fresh(manageBotPopulation(EmptyWorld, BounceStream(px, py, dir, target),
                                           StartTime)),
                 StartTime, MaxSessions, 0)
    \/ Holds(Fresh(AtBay.w), AtBay.t, MaxSessions, 1)

LimitBounce ==
    IF now >= AtBay.t THEN AtBay.t + BounceHorizon * tickPeriod
    ELSE StartTime + BounceHorizon * tickPeriod

NextBounce ==
    \/ \E s \in Sockets : \E p \in DuelPoints : PlayerMove(s, p[1], p[2])
    \/ \E s \in Sockets : \E a \in ShootAngles : Shoot(s, a, BounceBullets)
    \/ Tick(HalfStream, BounceBullets)
    \/ Tick(ZeroStream, BounceBullets)
    \/ AdvanceTime(LimitBounce)

SpecBounce == InitBounce /\ [][NextBounce]_vars

\* The bound on the bullets in flight holds up no tick of SpecBounce.
BounceNotHeldUp ==
    now >= nextTick
        => /\ Len(onTick(World, HalfStream, now).bullets) <= BounceBullets
           /\ Len(onTick(World, ZeroStream, now).bullets) <= BounceBullets

\* The heading of the decided bot after the smoothing of lines 197-199
Heading(bot) == bot.direction + Round(bot.targetDirection - bot.direction, 10)

\* The coordinate it would reach along the cosine (or sine) c of its heading
Projected(v, c, bot) == v + Round(c * bot.speed, 1000)

OutOfMargin(v, limit) == v < wallMargin \/ v > limit - wallMargin

\* The margin nearer to a coordinate that is out of the margins
NearerMargin(v, limit) == IF v < wallMargin THEN wallMargin ELSE limit - wallMargin

\* The bot after its turn, as the bounce rules give it from the decided bot
\* with heading h and projected position (px, py).
BouncedFrom(after, bot, h, px, py) ==
    /\ after.x = IF OutOfMargin(px, worldWidth) THEN NearerMargin(px, worldWidth) ELSE px
    /\ after.y = IF OutOfMargin(py, worldHeight) THEN NearerMargin(py, worldHeight) ELSE py
    /\ after.direction
          = IF OutOfMargin(py, worldHeight)
            THEN 0 - (IF OutOfMargin(px, worldWidth) THEN PI - h ELSE h)
            ELSE (IF OutOfMargin(px, worldWidth) THEN PI - h ELSE h)
    /\ after.targetDirection
          = IF OutOfMargin(px, worldWidth) \/ OutOfMargin(py, worldHeight)
            THEN after.direction
            ELSE bot.targetDirection

Bounced(after, bot) ==
    BouncedFrom(after, bot, Heading(bot),
                Projected(bot.x, Cos(Heading(bot)), bot),
                Projected(bot.y, Sin(Heading(bot)), bot))

\* Every bot that the tick on stream rs does not kill is, after the tick,
\* where the bounce rules put it.
BouncesIn(rs) ==
    \A i \in DOMAIN bots :
        CountOf(out', "playerDied", bots[i].id) = 0
            => Bounced(bots'[i], Decided(i, rs))

\* The bots that are at (0, 0) with heading 0 and that the step does not
\* kill
AtOrigin ==
    {i \in DOMAIN bots :
        /\ bots[i].x = 0 /\ bots[i].y = 0 /\ bots[i].direction = 0
        /\ CountOf(out', "playerDied", bots[i].id) = 0}

\* C31 as stated: the bounce rules, and a bot at (0, 0) with heading 0 ends
\* its tick with heading pi - heading (up to whole turns) and x = 50.
BounceReflects ==
    [][\A rs \in {HalfStream, ZeroStream} :
           Tick(rs, BounceBullets)
               => /\ BouncesIn(rs)
                  /\ \A i \in AtOrigin :
                         /\ bots'[i].x = wallMargin
                         /\ (bots'[i].direction - (PI - Heading(Decided(i, rs))))
                                % (2 * PI) = 0]_vars

\* C31 amended: when the projected x of a bot is outside [50, worldWidth -
\* 50] its heading becomes pi - heading and x the nearer margin; then, when
\* its projected y is outside [50, worldHeight - 50], its heading becomes
\* the negative of that and y the nearer margin; after a bounce
\* targetDirection is the new heading.  A bot at (0, 0) with heading 0
\* bounces twice: it ends its update at (50, 50) with heading h - pi, h
\* being its heading after the smoothing, and with this targetDirection.
BounceReflectsTwice ==
    [][\A rs \in {HalfStream, ZeroStream} :
           Tick(rs, BounceBullets)
               => /\ BouncesIn(rs)
                  /\ \A i \in AtOrigin :
                         /\ bots'[i].x = wallMargin
                         /\ bots'[i].y = wallMargin
                         /\ bots'[i].direction = Heading(Decided(i, rs)) - PI
                         /\ bots'[i].targetDirection = bots'[i].direction]_vars

\* The first bot, created at (0, 0) with heading 0 and target heading 90
\* degrees, has turned to 9 degrees, bounced off both walls of the corner
\* and is at (50, 50) with heading and target heading 9 - 180 degrees.
BounceReflectsTwiceWitness ==
    /\ now = StartTime + tickPeriod
    /\ TickRan
    /\ players = <<>>
    /\ bots[1].x = wallMargin
    /\ bots[1].y = wallMargin
    /\ bots[1].direction = 9 - PI
    /\ bots[1].targetDirection = 9 - PI

\* The entity is at least 50 units from every edge of the world.
InMargins(e) ==
    /\ wallMargin <= e.x /\ e.x <= worldWidth - wallMargin
    /\ wallMargin <= e.y /\ e.y <= worldHeight - wallMargin

AllInMargins(bs) == \A i \in DOMAIN bs : bs[i].alive => InMargins(bs[i])

\* C32: whenever a tick is due, the bots as updateBots leaves them, with
\* Math.random() returning 0.5 or 0, are all between the margins: 50 <= x
\* <= worldWidth - 50 and 50 <= y <= worldHeight - 50, wherever they were
\* created or respawned.
BotsKeptInMargins ==
    now >= nextTick
        => /\ AllInMargins(updateBots(World, HalfStream, now).bots)
           /\ AllInMargins(updateBots(World, ZeroStream, now).bots)

\* A tick is due in which the second bot, which a bullet has killed and
\* which has been respawned at (0, 0), inside the margin, is updated for the
\* first time.
BotsKeptInMarginsWitness ==
    /\ now >= nextTick
    /\ bots[2].deaths = 1
    /\ bots[2].x = 0
    /\ bots[2].y = 0
    /\ ~InMargins(bots[2])
    /\ InMargins(updateBots(World, HalfStream, now).bots[2])

-----------------------------------------------------------------------------
(* SpecSight: two players move among points at equal and at different
   distances from two bots that are 100 units apart, and may be eliminated *)

SightSessions == 2
SightBullets == 6
SightTimers == 1
SightHorizon == 2

\* Two bots on the vertical through the centre, 100 and 200 units above it,
\* and three far from them.
SightStream ==
    BotDraws(500, 450, 250) \o BotDraws(500, 400, 250) \o BotDraws(100, 100, 250)
        \o BotDraws(900, 100, 250) \o BotDraws(100, 900, 750)

SightStart ==
    JoinedFrom(manageBotPopulation(EmptyWorld, SightStream, StartTime), 1,
               SightSessions, StartTime)

\* The centre, a point between the two bots, and two points at
\* botDetectionRange and just within it from the first bot.
SightPoints ==
    {<<1000, 1000>>, <<1000, 850>>, <<1000, 900 + botDetectionRange>>,
     <<1000, 899 + botDetectionRange>>}

InitSight == Holds(Fresh(SightStart), StartTime, SightSessions, SightSessions)

LimitSight == StartTime + SightHorizon * tickPeriod

NextSight ==
    \/ \E s \in Sockets : \E p \in SightPoints : PlayerMove(s, p[1], p[2])
    \/ \E s \in Sockets : PlayerEliminated(s, <<"nobody", 0>>, SightTimers)
    \/ Tick(HalfStream, SightBullets)
    \/ AdvanceTime(LimitSight)

SpecSight == InitSight /\ [][NextSight]_vars

\* The bound on the bullets in flight holds up no tick of SpecSight.
SightNotHeldUp ==
    now >= nextTick => Len(onTick(World, HalfStream, now).bullets) <= SightBullets

\* The square of the distance between the entity and the bot
Apart(e, bot) == Dist2(e.x - bot.x, e.y - bot.y)

\* The living entities other than the bot that are strictly closer to it
\* than botDetectionRange
InSight(bot) ==
    {e \in Entities :
        e.alive /\ e.id # bot.id /\ Apart(e, bot) < botDetectionRange * botDetectionRange}

\* The entity a comes before the entity b: a player before a bot, and within
\* a store the one inserted earlier.
ComesBefore(a, b) ==
    IF a.isBot = b.isBot
    THEN IF a.isBot THEN IndexOf(bots, a.id) <= IndexOf(bots, b.id)
         ELSE IndexOf(players, a.id) <= IndexOf(players, b.id)
    ELSE ~a.isBot

\* C34: the threat of a bot is a living entity other than the bot, strictly
\* closer to it than botDetectionRange and no farther than any other such
\* entity; there is none exactly if there is no such entity; among those at
\* the smallest distance it is a player rather than a bot, and the one
\* inserted into its store first.
ThreatIsNearest ==
    \A i \in DOMAIN bots :
        /\ Threat(World, bots[i]).found <=> InSight(bots[i]) # {}
        /\ Threat(World, bots[i]).found
               => \E e \in InSight(bots[i]) :
                      /\ e.id = Threat(World, bots[i]).id
                      /\ Threat(World, bots[i]).d2 = Apart(e, bots[i])
                      /\ \A o \in InSight(bots[i]) :
                             \/ Apart(e, bots[i]) < Apart(o, bots[i])
                             \/ /\ Apart(e, bots[i]) = Apart(o, bots[i])
                                /\ ComesBefore(e, o)

\* The first player is dead where it joined, as far from the first bot as
\* the second player and the second bot are, and the threat of the first bot
\* is the second player; the third bot has no threat.
ThreatIsNearestWitness ==
    /\ ~players[1].alive
    /\ players[2].alive
    /\ Apart(players[1], bots[1]) = Apart(players[2], bots[1])
    /\ Apart(players[2], bots[1]) = Apart(bots[2], bots[1])
    /\ Threat(World, bots[1]).id = SockId(2)
    /\ ~Threat(World, bots[3]).found

-----------------------------------------------------------------------------
(* SpecVolley: from the state of SpecHunt, in which the second bot has shot
   one period ago at the player next to it; the player moves next to the bot,
   to botShootRange from it and to just within, and shoots; four ticks *)

VolleyBullets == 3
VolleyHorizon == 4

VolleyPoints ==
    DuelPoints \cup {<<bots[2].x, bots[2].y + botShootRange>>,
                     <<bots[2].x, bots[2].y + botShootRange - 1>>}

InitVolley == Holds(Fresh(AtBay.w), AtBay.t, MaxSessions, 1)

LimitVolley == AtBay.t + VolleyHorizon * tickPeriod

NextVolley ==
    \/ \E s \in Sockets : \E p \in VolleyPoints : PlayerMove(s, p[1], p[2])
    \/ \E s \in Sockets : \E a \in ShootAngles : Shoot(s, a, VolleyBullets)
    \/ Tick(HalfStream, VolleyBullets)
    \/ AdvanceTime(LimitVolley)

SpecVolley == InitVolley /\ [][NextVolley]_vars

\* The bound on the bullets in flight holds up no tick of SpecVolley.
VolleyNotHeldUp ==
    now >= nextTick => Len(onTick(World, HalfStream, now).bullets) <= VolleyBullets

\* The bulletFired events of the step whose bullet is owned by the id
FiredBy(id) ==
    {k \in DOMAIN out' : out'[k].type = "bulletFired" /\ out'[k].data[5] = id}

\* In the world w some living entity other than the bot is strictly closer
\* to it than botShootRange.
TargetInRange(w, bot) ==
    \/ \E j \in DOMAIN w.players :
           /\ w.players[j].alive
           /\ Dist2(w.players[j].x - bot.x, w.players[j].y - bot.y)
                  < botShootRange * botShootRange
    \/ \E j \in DOMAIN w.bots :
           /\ w.bots[j].alive
           /\ w.bots[j].id # bot.id
           /\ Dist2(w.bots[j].x - bot.x, w.bots[j].y - bot.y)
                  < botShootRange * botShootRange

\* C35: a tick creates at most one projectile for a bot, and one only if,
\* when the turn of the bot comes, a living entity other than the bot is
\* strictly closer to it than botShootRange and more than shootCooldown has
\* passed since its lastShoot; the projectile is created at the time of the
\* tick, which becomes the lastShoot of the bot; the lastShoot of a bot
\* changes in no other way, so that two projectiles of a bot are more than
\* shootCooldown apart.
BotShotsSpaced ==
    [][/\ Tick(HalfStream, VolleyBullets)
          => \A i \in DOMAIN bots :
                 /\ i \in DOMAIN bots'
                 /\ bots'[i].id = bots[i].id
                 /\ Cardinality(FiredBy(bots[i].id)) <= 1
                 /\ FiredBy(bots[i].id) # {}
                        => /\ now - bots[i].lastShoot > shootCooldown
                           /\ TargetInRange(AtTurn(i, HalfStream),
                                            AtTurn(i, HalfStream).bots[i])
                           /\ bots'[i].lastShoot = now
                           /\ \A k \in FiredBy(bots[i].id) : out'[k].data[6] = now
                           /\ \A j \in DOMAIN bullets :
                                  bullets[j].ownerId = bots[i].id
                                      => now - bullets[j].createdAt > shootCooldown
                 /\ FiredBy(bots[i].id) = {} => bots'[i].lastShoot = bots[i].lastShoot
       /\ ~Tick(HalfStream, VolleyBullets)
          => /\ \A i \in DOMAIN bots : FiredBy(bots[i].id) = {}
             /\ \A i \in DOMAIN bots' :
                    i \in DOMAIN bots /\ bots'[i].lastShoot = bots[i].lastShoot]_vars

\* The second bot, which had shot one period before the start and has let
\* two ticks pass, has shot again in the fourth tick at the player that is
\* just within botShootRange of it, while its earlier bullet is in flight.
BotShotsSpacedWitness ==
    /\ TickRan
    /\ now = AtBay.t + VolleyHorizon * tickPeriod
    /\ CountOf(out, "bulletFired", BulletId(bulletIdCounter - 1)) = 1
    /\ bots[2].lastShoot = now
    /\ \E j \in DOMAIN bullets :
           /\ bullets[j].ownerId = bots[2].id
           /\ bullets[j].createdAt = now
    /\ players[1].alive
    /\ Dist2(players[1].x - bots[2].x, players[1].y - bots[2].y)
           > backAwayDistance * backAwayDistance

-----------------------------------------------------------------------------
(* SpecPing: every bot has pinged in the first tick, in which every call of
   Math.random() returned 0, and nine ticks have passed; the player moves to
   points around pingBlindDistance from the second bot; three ticks, in each
   of which Math.random() returns 0 throughout or 0.5 throughout *)

PingBullets == 3
PingHorizon == 3

Pinged ==
    At(onTick(Fresh(Joined(StartTime)), ZeroStream, StartTime + tickPeriod),
       StartTime + tickPeriod)

PingStart == Later(Pinged, pingCooldown \div tickPeriod - 1)

PingPoints ==
    {<<bots[2].x, bots[2].y + pingBlindDistance - 50>>,
     <<bots[2].x, bots[2].y + pingBlindDistance>>,
     <<bots[2].x, bots[2].y + pingBlindDistance + 1>>,
     <<Quot(worldWidth, 2), Quot(worldHeight, 2)>>}

InitPing == Holds(Fresh(PingStart.w), PingStart.t, MaxSessions, 1)

LimitPing == PingStart.t + PingHorizon * tickPeriod

NextPing ==
    \/ \E s \in Sockets : \E p \in PingPoints : PlayerMove(s, p[1], p[2])
    \/ Tick(ZeroStream, PingBullets)
    \/ Tick(HalfStream, PingBullets)
    \/ AdvanceTime(LimitPing)

SpecPing == InitPing /\ [][NextPing]_vars

\* The bound on the bullets in flight holds up no tick of SpecPing.
PingNotHeldUp ==
    now >= nextTick
        => /\ Len(onTick(World, ZeroStream, now).bullets) <= PingBullets
           /\ Len(onTick(World, HalfStream, now).bullets) <= PingBullets

\* The pingEmitted events of the step that are about the id
PingsOf(id) ==
    {k \in DOMAIN out' : out'[k].type = "pingEmitted" /\ out'[k].id = id}

\* In the world w some living entity other than the bot is strictly closer
\* to it than botDetectionRange and no farther than pingBlindDistance.
TargetNear(w, bot) ==
    \/ \E j \in DOMAIN w.players :
           /\ w.players[j].alive
           /\ Dist2(w.players[j].x - bot.x, w.players[j].y - bot.y)
                  <= pingBlindDistance * pingBlindDistance
    \/ \E j \in DOMAIN w.bots :
           /\ w.bots[j].alive
           /\ w.bots[j].id # bot.id
           /\ Dist2(w.bots[j].x - bot.x, w.bots[j].y - bot.y)
                  <= pingBlindDistance * pingBlindDistance

\* What a tick on the stream rs does about the pings of the bots
PingsOnTick(rs) ==
    \A i \in DOMAIN bots :
        /\ i \in DOMAIN bots'
        /\ bots'[i].id = bots[i].id
        /\ Cardinality(PingsOf(bots[i].id)) <= 1
        /\ \A k \in PingsOf(bots[i].id) :
               /\ now - bots[i].lastPing > pingCooldown
               /\ ~TargetNear(AtTurn(i, rs), AtTurn(i, rs).bots[i])
               /\ bots'[i].lastPing = now
               /\ out'[k].data[3] = now
               /\ \E m \in 1 .. k - 1 :
                      /\ out'[m].type = "playerMoved"
                      /\ out'[m].id = bots[i].id
                      /\ out'[m].data = <<out'[k].data[1], out'[k].data[2]>>
               /\ CountOf(out', "playerDied", bots[i].id) = 0
                      => /\ out'[k].data[1] = bots'[i].x
                         /\ out'[k].data[2] = bots'[i].y
        /\ PingsOf(bots[i].id) = {} => bots'[i].lastPing = bots[i].lastPing

\* C36: a tick emits a ping for a bot only if, when the turn of the bot
\* comes, no living entity other than the bot is within pingBlindDistance of
\* it (its threat, if any, is farther than that) and more than pingCooldown
\* has passed since its lastPing; the ping makes the time of the tick the
\* lastPing of the bot and carries the position that the bot has after its
\* movement of this tick; a bot for which no ping is emitted keeps its
\* lastPing, in a tick and in every other step.
BotPingsSpaced ==
    [][/\ Tick(ZeroStream, PingBullets) => PingsOnTick(ZeroStream)
       /\ Tick(HalfStream, PingBullets) => PingsOnTick(HalfStream)
       /\ ~(Tick(ZeroStream, PingBullets) \/ Tick(HalfStream, PingBullets))
          => /\ \A i \in DOMAIN bots : PingsOf(bots[i].id) = {}
             /\ \A i \in DOMAIN bots' :
                    i \in DOMAIN bots /\ bots'[i].lastPing = bots[i].lastPing]_vars

\* In the second tick, more than pingCooldown after the first pings, the
\* second bot has pinged from where it has moved to, its threat, the player,
\* being just beyond pingBlindDistance, and the first bot, which has no
\* threat, has pinged too.
BotPingsSpacedWitness ==
    /\ TickRan
    /\ now = PingStart.t + 2 * tickPeriod
    /\ CountOf(out, "pingEmitted", bots[2].id) = 1
    /\ CountOf(out, "pingEmitted", bots[1].id) = 1
    /\ bots[2].lastPing = now
    /\ Threat(World, bots[2]).found
    /\ Threat(World, bots[2]).id = SockId(1)

-----------------------------------------------------------------------------
(* SpecIds: six clients have connected, so that the first bot has been
   removed; they shoot and disconnect, and when all have left a bot is
   created; two ticks *)

IdsSessions == 6
IdsShooters == 2
IdsBullets == 2
IdsHorizon == 2

InitIds ==
    Holds(Fresh(JoinedMany(IdsSessions, StartTime)), StartTime, IdsSessions, IdsSessions)

LimitIds == StartTime + IdsHorizon * tickPeriod

NextIds ==
    \/ \E s \in Sockets : Disconnect(s, SpawnStream)
    \/ \E s \in Sockets \cap (1 .. IdsShooters) : \E a \in ShootAngles :
           Shoot(s, a, IdsBullets)
    \/ Tick(HalfStream, IdsBullets)
    \/ AdvanceTime(LimitIds)

SpecIds == InitIds /\ [][NextIds]_vars

\* The bound on the bullets in flight holds up no tick of SpecIds.
IdsNotHeldUp ==
    now >= nextTick => Len(onTick(World, HalfStream, now).bullets) <= IdsBullets

\* No two entries of the sequence of ids are the same.
Distinct(ids) ==
    \A i \in DOMAIN ids : \A j \in DOMAIN ids : i # j => ids[i] # ids[j]

\* The events of the type that the step emits
EmittedOf(type) == SelectSeq(out', LAMBDA e : e.type = type)

\* C37: in every state the ids of the players and of the bots are all
\* different, and so are those of the bullets; the number in the id of a bot
\* is below botIdCounter and that in the id of a bullet below
\* bulletIdCounter; the counters never decrease, and every bot and every
\* bullet that a step creates has a number that is not below the counter
\* before the step, so that no bot id and no bullet id is given twice.
IdsNeverReused ==
    /\ [](/\ Distinct(Ids(players) \o Ids(bots))
          /\ Distinct(Ids(bullets))
          /\ \A i \in DOMAIN bots : bots[i].id[2] < botIdCounter
          /\ \A i \in DOMAIN bullets : bullets[i].id[2] < bulletIdCounter)
    /\ [][/\ botIdCounter' >= botIdCounter
          /\ bulletIdCounter' >= bulletIdCounter
          /\ Distinct(Ids(EmittedOf("bulletFired")))
          /\ Distinct(Ids(EmittedOf("playerJoined")))
          /\ \A k \in DOMAIN out' :
                 /\ out'[k].type = "bulletFired"
                        => out'[k].id[2] \in bulletIdCounter .. bulletIdCounter' - 1
                 /\ (out'[k].type = "playerJoined" /\ out'[k].id[1] = "bot")
                        => out'[k].id[2] \in botIdCounter .. botIdCounter' - 1
          /\ \A i \in DOMAIN bots' :
                 IndexOf(bots, bots'[i].id) = 0
                     => bots'[i].id[2] \in botIdCounter .. botIdCounter' - 1
          /\ \A i \in DOMAIN bullets' :
                 IndexOf(bullets, bullets'[i].id) = 0
                     => bullets'[i].id[2] \in bulletIdCounter .. bulletIdCounter' - 1]_vars

\* All the players have left and a sixth bot has been created, the first
\* having been removed; the first bullet is gone and the second is in the
\* store.
IdsNeverReusedWitness ==
    /\ players = <<>>
    /\ Ids(bots) = <<BotId(1), BotId(2), BotId(3), BotId(4), BotId(5)>>
    /\ botIdCounter = 6
    /\ bulletIdCounter = 2
    /\ Ids(bullets) = <<BulletId(1)>>

-----------------------------------------------------------------------------
(* SpecScore: from the state of SpecHunt, in which one more hit of the
   player kills the second bot; the player moves, shoots, pings and
   disconnects; three ticks *)

ScoreBullets == 2
ScoreHorizon == 3

InitScore == Holds(Fresh(AtBay.w), AtBay.t, MaxSessions, 1)

LimitScore == AtBay.t + ScoreHorizon * tickPeriod

NextScore ==
    \/ \E s \in Sockets : \E p \in DuelPoints : PlayerMove(s, p[1], p[2])
    \/ \E s \in Sockets : \E a \in ShootAngles : Shoot(s, a, ScoreBullets)
    \/ \E s \in Sockets : EmitPing(s)
    \/ \E s \in Sockets : Disconnect(s, SpawnStream)
    \/ Tick(HalfStream, ScoreBullets)
    \/ AdvanceTime(LimitScore)

SpecScore == InitScore /\ [][NextScore]_vars

\* The emitPing of socket s is accepted in the step.
PingAccepted(s) == EmitPing(s) /\ CountOf(out', "pingEmitted", SockId(s)) > 0

\* An accepted emitPing makes the time of the ping the lastPing of the
\* sender and leaves its position, health, alive flag, kills and deaths, the
\* other players, the bots and the bullets as they are.
PingFrame ==
    [][\A s \in Sockets :
           PingAccepted(s)
               => /\ \A i \in DOMAIN players :
                         players'[i]
                             = IF players[i].id = SockId(s)
                               THEN [players[i] EXCEPT !.lastPing = now,
                                                       !.score = players'[i].score]
                               ELSE players[i]
                  /\ Len(players') = Len(players)
                  /\ bots' = bots
                  /\ bullets' = bullets]_vars

\* C38: an accepted emitPing makes the time of the ping the lastPing of the
\* sender, leaves its position, health, alive flag, kills and deaths as they
\* are, and leaves it with the score floor(secondsSinceJoin) + kills*100.
PingKeepsKillBonus ==
    [][\A s \in Sockets :
           PingAccepted(s)
               => /\ players'[IndexOf(players, SockId(s))].lastPing = now
                  /\ \A f \in {"x", "y", "health", "alive", "kills", "deaths"} :
                         players'[IndexOf(players, SockId(s))][f]
                             = players[IndexOf(players, SockId(s))][f]
                  /\ players'[IndexOf(players, SockId(s))].score
                         = ScoreOf(players[IndexOf(players, SockId(s))], now)]_vars

\* C39: the finalScore of the playerLeft of a player that disconnects is
\* floor(secondsSinceJoin) + kills*100, the score that the tick computes for
\* the player at this time.
FinalScoreDerived ==
    [][\A s \in Sockets :
           (Disconnect(s, SpawnStream) /\ IndexOf(players, SockId(s)) # 0)
               => \E k \in DOMAIN out' :
                      /\ out'[k].type = "playerLeft"
                      /\ out'[k].id = SockId(s)
                      /\ out'[k].data[1]
                             = ScoreOf(players[IndexOf(players, SockId(s))], now)]_vars

=============================================================================
